---- MODULE Spec2Model ----
(***************************************************************************)
(* A model of the request-processing core of rproxy: the per-backend       *)
(* circuit breaker (lib/circuit-breaker.ts), the per-IP rate limiter over  *)
(* an LRU table (lib/security.ts, lib/lru-cache.ts) and the proxy engine's *)
(* retry loop (ReverseProxy.proxyRequest), with the route table, the       *)
(* request pipeline (ReverseProxy.handleRequest), the header handling, the *)
(* health checker and the start, reload and shutdown of the process.       *)
(*                                                                         *)
(* JavaScript runs one handler at a time: an action is one synchronous     *)
(* section of the code, from its entry (or the resumption after an await)  *)
(* to the next await.  Date.now() is the variable now; the clock advances  *)
(* between handlers and never inside one.                                  *)
(***************************************************************************)
EXTENDS Integers, Sequences, FiniteSets, Bags, TLC

\* ------------------------------------------------------------ constants
\* CircuitBreaker.config
failureThreshold == 5
successThreshold == 2
timeout == 60000
monitoringPeriod == 10000

\* an optional field that was never assigned (nextAttemptTime?: number)
Undefined == -1

\* The clock moves on a grid.  Every comparison of the breaker is between a
\* difference of two clock readings and monitoringPeriod or timeout, both
\* multiples of the step, so the grid produces each of <, = and >.
ClockStep == monitoringPeriod

\* ReverseProxy.proxyRequest
maxRetries == 2

\* SecurityManager
windowMs == 60000
MaxHostLength == 253

\* bounds of the model
MaxTicks == 14
MaxInflight == 2
MaxCount == 7
MaxRequests == 3
MaxConcurrent == 2
MaxEngineTicks == 3
MaxRateTicks == 3
MaxOps == 4
MaxHandled == 4
MaxProxied == 2
MaxFront == 1
MaxHeaders == 2
MaxProbes == 2
MaxStreak == 3
NumIps == 3
\* Scaled: the source has maxRequestsPerMinute = 60 (security.ts:15) and builds
\* its table with new LRUCache(10000) (security.ts:19).  isRateLimited and
\* LRUCache read both only through >= and >, so the small values walk through
\* the same branches.
maxRequestsPerMinute == 3
capacity == 2

MaxTime == MaxTicks * ClockStep

VARIABLES
  now,        \* Date.now()
  breaker,    \* the CircuitBreaker of one backend
  inflight,   \* operations admitted by execute and not yet settled
  ev,         \* history: the kind of the last step
  call,       \* history: what the last execute saw and did
  gFails,     \* history: timestamps of the failures recorded while CLOSED, since it became CLOSED
  trip,       \* history: when failureThreshold failures within monitoringPeriod were reached in CLOSED, until the next execute
  hoSucc,     \* history: successes in a row since HALF_OPEN was entered
  opened,     \* history: when and how OPEN was last entered
  cache,      \* SecurityManager.rateLimitCache: the nodes of the LRU list, head first
  admitted,   \* history: the last isRateLimited call and its answer
  win,        \* history: the window of the watched IP, as the claims count it
  req,        \* the bag of the client requests inside proxyRequest
  health,     \* HealthChecker.healthStatus.get(backend)
  eng,        \* history of the engine: what the upstream has answered so far
  routes,     \* Config: the rows of the table routes
  routeLog,   \* history: the operations on the table, oldest first, and the last result
  front,      \* the bag of the client requests inside handleRequest, outside proxyRequest
  stats,      \* Stats: the counters
  disk,       \* the file system: the kind and content of each path that exists
  handled,    \* history: the request the last step worked on, and what it was answered
  checker,    \* HealthChecker: healthStatus and checkIntervals
  timers,     \* the interval timers of the runtime that are set
  probes,     \* the bag of the calls of checkHealth in progress
  probed,     \* history: what the last step of the health checker did
  wire,       \* the headers of one exchange: client request, upstream request, upstream response, relayed response
  server      \* the process: its listeners, its handle on the route table, and how far a shutdown has come

breakerVars == <<breaker, ev, call, gFails, trip, hoSucc, opened>>
rateVars == <<cache, admitted, win>>
engineVars == <<req, health, eng>>
configVars == <<routes, routeLog>>
handlerVars == <<front, stats, disk, handled>>
checkerVars == <<checker, timers, probes, probed>>
wireVars == <<wire>>
supVars == <<server>>
restVars == <<configVars, handlerVars, checkerVars, wireVars, supVars>>
vars == <<now, inflight, breakerVars, rateVars, engineVars, restVars>>

\* ------------------------------------------------------- circuit breaker
NewBreaker ==
  [state |-> "CLOSED",
   consecutiveFailures |-> 0,
   consecutiveSuccesses |-> 0,
   nextAttemptTime |-> Undefined,
   failureTimestamps |-> <<>>]

\* (this.nextAttemptTime || 0)
orZero(x) == IF x = Undefined THEN 0 ELSE x

\* (a breaker that still rejects at nextAttemptTime itself)
rejects_inclusive(b, t) == b.state = "OPEN" /\ t <= orZero(b.nextAttemptTime)

\* execute, lines 63-66: the call throws without running the operation
rejects(b, t) == b.state = "OPEN" /\ t < orZero(b.nextAttemptTime)

\* (a breaker that runs the operation after the timeout and stays OPEN)
enter_stay(b) == b

\* (a breaker that forgets to restart the count on entering HALF_OPEN)
enter_keepCount(b) ==
  IF b.state = "OPEN" THEN [b EXCEPT !.state = "HALF_OPEN"] ELSE b

\* execute, lines 63-74, for a call that is not rejected
enter(b) ==
  IF b.state = "OPEN"
  THEN [b EXCEPT !.state = "HALF_OPEN", !.consecutiveSuccesses = 0]
  ELSE b

\* (a filter that drops the timestamp exactly monitoringPeriod old)
inWindow_strict(ts, t) == SelectSeq(ts, LAMBDA x : t - x < monitoringPeriod)

\* onFailure, lines 117-119
inWindow(ts, t) == SelectSeq(ts, LAMBDA x : t - x <= monitoringPeriod)

\* (a breaker that opens without a timeout)
openCircuit_now(b, t) ==
  [b EXCEPT !.state = "OPEN", !.nextAttemptTime = t]

\* openCircuit, lines 137-139
openCircuit(b, t) ==
  [b EXCEPT !.state = "OPEN", !.nextAttemptTime = t + timeout]

\* onSuccess, lines 89-103
onSuccess(b) ==
  LET b1 == [b EXCEPT !.consecutiveSuccesses = @ + 1,
                      !.consecutiveFailures = 0]
  IN IF b1.state = "HALF_OPEN" /\ b1.consecutiveSuccesses >= successThreshold
     THEN [b1 EXCEPT !.state = "CLOSED", !.failureTimestamps = <<>>]
     ELSE b1

\* (a breaker that starts the timeout again at a failure while OPEN)
onFailure_reopen(b, t) ==
  LET b1 == [b EXCEPT !.consecutiveFailures = @ + 1,
                      !.consecutiveSuccesses = 0,
                      !.failureTimestamps = inWindow(Append(@, t), t)]
  IN IF b1.state # "CLOSED"
     THEN openCircuit(b1, t)
     ELSE IF Len(b1.failureTimestamps) >= failureThreshold
          THEN openCircuit(b1, t)
          ELSE b1

\* (a breaker that ignores a failure in HALF_OPEN)
onFailure_closedOnly(b, t) ==
  LET b1 == [b EXCEPT !.consecutiveFailures = @ + 1,
                      !.consecutiveSuccesses = 0,
                      !.failureTimestamps = inWindow(Append(@, t), t)]
  IN IF b1.state = "CLOSED" /\ Len(b1.failureTimestamps) >= failureThreshold
     THEN openCircuit(b1, t)
     ELSE b1

\* (a breaker that never drops an old failure)
onFailure_noFilter(b, t) ==
  LET b1 == [b EXCEPT !.consecutiveFailures = @ + 1,
                      !.consecutiveSuccesses = 0,
                      !.failureTimestamps = Append(@, t)]
  IN IF b1.state = "HALF_OPEN"
     THEN openCircuit(b1, t)
     ELSE IF b1.state = "CLOSED" /\ Len(b1.failureTimestamps) >= failureThreshold
          THEN openCircuit(b1, t)
          ELSE b1

\* (a breaker that opens one failure late)
onFailure_late(b, t) ==
  LET b1 == [b EXCEPT !.consecutiveFailures = @ + 1,
                      !.consecutiveSuccesses = 0,
                      !.failureTimestamps = inWindow(Append(@, t), t)]
  IN IF b1.state = "HALF_OPEN"
     THEN openCircuit(b1, t)
     ELSE IF b1.state = "CLOSED" /\ Len(b1.failureTimestamps) > failureThreshold
          THEN openCircuit(b1, t)
          ELSE b1

\* onFailure, lines 108-132
onFailure(b, t) ==
  LET b1 == [b EXCEPT !.consecutiveFailures = @ + 1,
                      !.consecutiveSuccesses = 0,
                      !.failureTimestamps = inWindow(Append(@, t), t)]
  IN IF b1.state = "HALF_OPEN"
     THEN openCircuit(b1, t)
     ELSE IF b1.state = "CLOSED" /\ Len(b1.failureTimestamps) >= failureThreshold
          THEN openCircuit(b1, t)
          ELSE b1

\* ---- the history kept beside the breaker (read by the properties only)
NoTrip == Undefined
NoCall == [saw |-> "none", result |-> "none"]
NotOpened == [at |-> 0, by |-> "none"]

\* the failures of gFails that fall in the monitoring period ending at t
recent(fs, t) == SelectSeq(fs, LAMBDA x : x >= t - monitoringPeriod)

HistInit ==
  /\ ev = "init"
  /\ call = NoCall
  /\ gFails = <<>>
  /\ trip = NoTrip
  /\ hoSucc = 0
  /\ opened = NotOpened

\* (a breaker in which a rejected call starts the timeout again)
BreakerExecute_extend ==
  /\ ev' = "execute"
  /\ trip' = NoTrip
  /\ UNCHANGED <<gFails, opened>>
  /\ IF rejects(breaker, now)
     THEN /\ call' = [saw |-> breaker.state, result |-> "rejected"]
          /\ breaker' = [breaker EXCEPT !.nextAttemptTime = now + timeout]
          /\ UNCHANGED hoSucc
     ELSE /\ call' = [saw |-> breaker.state, result |-> "invoked"]
          /\ breaker' = enter(breaker)
          /\ hoSucc' = IF breaker.state = "OPEN" THEN 0 ELSE hoSucc

\* the breaker's part of a call of execute at the present time
BreakerExecute ==
  /\ ev' = "execute"
  /\ trip' = NoTrip
  /\ UNCHANGED <<gFails, opened>>
  /\ IF rejects(breaker, now)
     THEN /\ call' = [saw |-> breaker.state, result |-> "rejected"]
          /\ UNCHANGED <<breaker, hoSucc>>
     ELSE /\ call' = [saw |-> breaker.state, result |-> "invoked"]
          /\ breaker' = enter(breaker)
          /\ hoSucc' = IF breaker.state = "OPEN" THEN 0 ELSE hoSucc

\* the breaker's part of the settling of an operation that succeeded
BreakerSuccess ==
  /\ ev' = "success"
  /\ breaker' = onSuccess(breaker)
  /\ hoSucc' = IF breaker'.state = "HALF_OPEN" THEN hoSucc + 1 ELSE 0
  /\ gFails' = IF breaker'.state = "CLOSED" /\ breaker.state # "CLOSED"
               THEN <<>> ELSE gFails
  /\ UNCHANGED <<call, trip, opened>>

\* the breaker's part of the settling of an operation that failed
BreakerFailure ==
  /\ ev' = "failure"
  /\ breaker' = onFailure(breaker, now)
  /\ hoSucc' = 0
  /\ gFails' = IF breaker.state = "CLOSED"
               THEN Append(recent(gFails, now), now) ELSE gFails
  /\ trip' = IF breaker.state = "CLOSED" /\ Len(gFails') >= failureThreshold
             THEN now ELSE trip
  /\ opened' = IF breaker'.state = "OPEN" /\ breaker.state # "OPEN"
               THEN [at |-> now,
                     by |-> IF breaker.state = "HALF_OPEN" THEN "halfopen" ELSE "threshold"]
               ELSE opened
  /\ UNCHANGED call

\* the clock moves between two handlers
Tick ==
  /\ now < MaxTime
  /\ now' = now + ClockStep
  /\ ev' = "tick"
  /\ gFails' = recent(gFails, now')
  /\ UNCHANGED <<breaker, call, trip, hoSucc, opened, inflight, rateVars, engineVars, restVars>>

\* ------------------------------------------------------------ LRU cache
\* A node of the list is [key, value]; cache is the list from head (most
\* recently used) to tail.  The Map of the source indexes the same nodes.
indexOf(c, k) ==
  IF \E i \in 1..Len(c) : c[i].key = k
  THEN CHOOSE i \in 1..Len(c) : c[i].key = k
  ELSE 0

without(c, i) == SubSeq(c, 1, i - 1) \o SubSeq(c, i + 1, Len(c))

\* moveToFront: removeNode then addToFront; nothing to do for the head
moveToFront(c, i) == IF i = 1 THEN c ELSE <<c[i]>> \o without(c, i)

\* removeLeastRecentlyUsed: the tail goes
removeLeastRecentlyUsed(c) == IF c = <<>> THEN c ELSE SubSeq(c, 1, Len(c) - 1)

\* (a get that reads the value and leaves the list as it is)
lruGet_peek(c, k) == c

\* LRUCache.get: the list after the call (the value is that of the new head)
lruGet(c, k) == IF indexOf(c, k) = 0 THEN c ELSE moveToFront(c, indexOf(c, k))

\* LRUCache.set
lruSet(c, k, v) ==
  LET i == indexOf(c, k)
  IN IF i # 0
     THEN moveToFront([c EXCEPT ![i].value = v], i)
     ELSE LET c1 == <<[key |-> k, value |-> v]>> \o c
          IN IF Len(c1) > capacity THEN removeLeastRecentlyUsed(c1) ELSE c1

\* ---------------------------------------------------------- rate limiter
\* (a limiter that lets one request too many through)
isRateLimited_offByOne(c, ip, t) ==
  LET i  == indexOf(c, ip)
      c1 == lruGet(c, ip)
  IN IF i = 0 \/ t > c[i].value.resetTime
     THEN [cache |-> lruSet(c1, ip, [count |-> 1, resetTime |-> t + windowMs]),
           limited |-> FALSE]
     ELSE IF c1[1].value.count > maxRequestsPerMinute
          THEN [cache |-> c1, limited |-> TRUE]
          ELSE [cache |-> [c1 EXCEPT ![1].value.count = @ + 1], limited |-> FALSE]

\* (a limiter that counts the calls it refuses too)
isRateLimited_uncapped(c, ip, t) ==
  LET i  == indexOf(c, ip)
      c1 == lruGet(c, ip)
  IN IF i = 0 \/ t > c[i].value.resetTime
     THEN [cache |-> lruSet(c1, ip, [count |-> 1, resetTime |-> t + windowMs]),
           limited |-> FALSE]
     ELSE [cache |-> [c1 EXCEPT ![1].value.count = @ + 1],
           limited |-> c1[1].value.count >= maxRequestsPerMinute]

\* (a limiter that starts a new window at resetTime itself)
isRateLimited_eager(c, ip, t) ==
  LET i  == indexOf(c, ip)
      c1 == lruGet(c, ip)
  IN IF i = 0 \/ t >= c[i].value.resetTime
     THEN [cache |-> lruSet(c1, ip, [count |-> 1, resetTime |-> t + windowMs]),
           limited |-> FALSE]
     ELSE IF c1[1].value.count >= maxRequestsPerMinute
          THEN [cache |-> c1, limited |-> TRUE]
          ELSE [cache |-> [c1 EXCEPT ![1].value.count = @ + 1], limited |-> FALSE]

\* (a limiter that makes a refused client wait a whole window again)
isRateLimited_extend(c, ip, t) ==
  LET i  == indexOf(c, ip)
      c1 == lruGet(c, ip)
  IN IF i = 0 \/ t > c[i].value.resetTime
     THEN [cache |-> lruSet(c1, ip, [count |-> 1, resetTime |-> t + windowMs]),
           limited |-> FALSE]
     ELSE IF c1[1].value.count >= maxRequestsPerMinute
          THEN [cache |-> [c1 EXCEPT ![1].value.resetTime = t + windowMs], limited |-> TRUE]
          ELSE [cache |-> [c1 EXCEPT ![1].value.count = @ + 1], limited |-> FALSE]

\* (a limiter that counts the call before it compares)
isRateLimited_early(c, ip, t) ==
  LET i  == indexOf(c, ip)
      c1 == lruGet(c, ip)
  IN IF i = 0 \/ t > c[i].value.resetTime
     THEN [cache |-> lruSet(c1, ip, [count |-> 1, resetTime |-> t + windowMs]),
           limited |-> FALSE]
     ELSE IF c1[1].value.count + 1 >= maxRequestsPerMinute
          THEN [cache |-> c1, limited |-> TRUE]
          ELSE [cache |-> [c1 EXCEPT ![1].value.count = @ + 1], limited |-> FALSE]

\* SecurityManager.isRateLimited: the table after the call, and the answer
isRateLimited(c, ip, t) ==
  LET i  == indexOf(c, ip)
      c1 == lruGet(c, ip)
  IN IF i = 0 \/ t > c[i].value.resetTime
     THEN [cache |-> lruSet(c1, ip, [count |-> 1, resetTime |-> t + windowMs]),
           limited |-> FALSE]
     ELSE IF c1[1].value.count >= maxRequestsPerMinute
          THEN [cache |-> c1, limited |-> TRUE]
          ELSE [cache |-> [c1 EXCEPT ![1].value.count = @ + 1], limited |-> FALSE]

Ips == 1..NumIps
\* The limiter treats every key alike: the history follows one IP.
Watched == CHOOSE ip \in Ips : \A other \in Ips : ip <= other

NoWindow == [open |-> Undefined, ok |-> 0, evicted |-> FALSE]
NoAdmit == [ip |-> 0, limited |-> FALSE]

windowRuns(w, t) == w.open # Undefined /\ t <= w.open + windowMs

\* The window of the watched IP: the windowMs that follow the call that
\* opened it (a call that created or reset the IP's entry), the number of
\* calls answered "not limited" in it, and whether the entry was evicted
\* during it.
winAfter(w, c, r, ip, t) ==
  LET i == indexOf(c, ip)
      j == indexOf(r.cache, Watched)
  IN IF ip # Watched
     THEN [w EXCEPT !.evicted = @ \/ (windowRuns(w, t) /\ indexOf(c, Watched) # 0 /\ j = 0)]
     ELSE IF windowRuns(w, t)
          THEN [w EXCEPT !.ok = @ + (IF r.limited THEN 0 ELSE 1)]
          ELSE IF i = 0 \/ t > c[i].value.resetTime
               THEN [open |-> t, ok |-> 1, evicted |-> FALSE]
               ELSE [open |-> r.cache[j].value.resetTime - windowMs,
                     ok |-> r.cache[j].value.count,
                     evicted |-> FALSE]

RateIdle ==
  /\ cache = <<>>
  /\ admitted = NoAdmit
  /\ win = NoWindow

\* one call of isRateLimited, and what the history keeps of it
AdmitCall(ip) ==
  LET r == isRateLimited(cache, ip, now)
  IN /\ cache' = r.cache
     /\ admitted' = [ip |-> ip, limited |-> r.limited]
     /\ win' = winAfter(win, cache, r, ip, now)

\* handleRequest, line 702: one call of isRateLimited
Admit(ip) ==
  /\ ip = Watched => win.ok <= maxRequestsPerMinute
  /\ AdmitCall(ip)
  /\ UNCHANGED <<now, inflight, breakerVars, engineVars, restVars>>

\* For the limiter the clock moves by half a window: now - (resetTime -
\* windowMs) is then below, at and above windowMs in turn.
RateStep == windowMs \div 2

RateTick ==
  /\ now < MaxRateTicks * RateStep
  /\ now' = now + RateStep
  /\ UNCHANGED <<inflight, breakerVars, rateVars, engineVars, restVars>>

\* ----------------------------------------------------------- proxy engine
\* health is HealthChecker.healthStatus restricted to the backend: empty
\* when the backend is not under check, else the one record startChecking
\* stored.  lastCheck, responseTime and error are written and never read;
\* they are left out.
NewStatus ==
  [healthy |-> TRUE, consecutiveFailures |-> 0, consecutiveSuccesses |-> 0]

\* HealthChecker.markUnhealthy
markUnhealthy(h) ==
  {[status EXCEPT !.healthy = FALSE,
                  !.consecutiveFailures = @ + 1,
                  !.consecutiveSuccesses = 0] : status \in h}

\* What fetch can do: resolve with a response, or reject (a network error,
\* or the abort by the 30 s timer).
Outcomes ==
  {[kind |-> "response", status |-> st] : st \in {200, 404, 500}}
    \cup {[kind |-> "error", status |-> 0]}

\* (an engine that treats every 4xx as a failure too)
failed_from400(o) == o.kind # "response" \/ o.status >= 400

\* executeProxyRequest, lines 619-640: the operation throws
failed(o) == o.kind # "response" \/ o.status >= 500

NoResponse == [status |-> 0, from |-> "none"]
BadGateway == [status |-> 502, from |-> "engine"]

\* A request inside proxyRequest.  pc: "upstream" while fetch is awaited,
\* "backoff" while the retry timer runs.  entered and contacted count its
\* calls of breaker.execute and of fetch, host is the host it came for.
\* Requests differ in nothing else, so those in progress form a bag.
\* aborted: the client has closed its connection.  body: "none" for a
\* request without one, else "unsent" until an attempt has read from the
\* stream request.body, and "consumed" from then on.
NewRequest ==
  [pc |-> "new", retryCount |-> 0, entered |-> 0, contacted |-> 0, host |-> <<>>,
   aborted |-> FALSE, body |-> "none"]

\* request.body after an attempt that failed: fetch may have read from the
\* stream before it failed, or not
bodyAfter(q) == IF q.body = "none" THEN {"none"} ELSE {q.body, "consumed"}

remove(bag, q) == bag (-) SetToBag({q})

\* all500: every answer of the upstream so far was a 500; overlap: two calls
\* of the upstream were in flight together; firstAt: the time of the first
\* attempt; started: the requests received so far.  outcome: what fetch
\* settled with in the last step, if it did; returned: the response the last
\* step returned to its client, if it did, with the number of times that
\* request had entered the breaker and called the upstream.
NoOutcome == [kind |-> "none", status |-> 0]
NoReturn == [response |-> NoResponse, entered |-> 0, contacted |-> 0, host |-> <<>>]
NoHistory ==
  [all500 |-> TRUE, overlap |-> FALSE, firstAt |-> Undefined, started |-> 0,
   outcome |-> NoOutcome, returned |-> NoReturn]

EngineIdle ==
  /\ req = EmptyBag
  /\ health = {}
  /\ eng = NoHistory

\* (an engine that retries once more)
retryAllowed_extra(q) == q.retryCount < maxRetries + 1

\* proxyRequest, line 551
retryAllowed(q) == q.retryCount < maxRetries

\* proxyRequest, lines 543-573, the catch block: the requests afterwards
afterFailure(bag, q) ==
  IF retryAllowed(q)
  THEN bag (+) SetToBag({[q EXCEPT !.pc = "backoff"]})
  ELSE bag

\* proxyRequest, lines 543-573, the catch block: what it returns
returnedAfterFailure(q) ==
  IF retryAllowed(q)
  THEN NoReturn
  ELSE [response |-> BadGateway, entered |-> q.entered, contacted |-> q.contacted,
        host |-> q.host]

upstreamBusy == \E q \in BagToSet(req) : q.pc = "upstream"

\* proxyRequest, lines 528-564, for request q: the call for a new request
\* (retryCount = 0) or the call made when the backoff timer fires
\* (retryCount + 1), up to the await of fetch, or through the catch block
\* when the breaker rejects.  rest is the other requests.
Enter(q, rest, fresh) ==
  /\ BreakerExecute
  /\ LET q1 == [q EXCEPT !.retryCount = IF fresh THEN 0 ELSE @ + 1,
                         !.entered = @ + 1]
         e == [eng EXCEPT !.firstAt = IF @ = Undefined THEN now ELSE @,
                          !.started = IF fresh THEN @ + 1 ELSE @,
                          !.outcome = NoOutcome]
     IN IF call'.result = "rejected"
        THEN /\ req' = afterFailure(rest, q1)
             /\ health' = markUnhealthy(health)
             /\ eng' = [e EXCEPT !.returned = returnedAfterFailure(q1)]
        ELSE /\ req' = rest (+) SetToBag({[q1 EXCEPT !.pc = "upstream",
                                                     !.contacted = @ + 1]})
             /\ health' = health
             /\ eng' = [e EXCEPT !.returned = NoReturn,
                                 !.overlap = @ \/ upstreamBusy]
  /\ UNCHANGED <<now, inflight>>

\* handleRequest, line 723: a request arrives
Arrive ==
  /\ eng.started < MaxRequests
  /\ BagCardinality(req) < MaxConcurrent
  /\ Enter(NewRequest, req, TRUE)
  /\ UNCHANGED <<rateVars, restVars>>

\* handleRequest, line 723: a request with a body arrives
ArriveBody ==
  /\ eng.started < MaxRequests
  /\ BagCardinality(req) < MaxConcurrent
  /\ Enter([NewRequest EXCEPT !.body = "unsent"], req, TRUE)
  /\ UNCHANGED <<rateVars, restVars>>

\* The client of a request closes its connection while fetch is awaited.
\* executeProxyRequest, lines 615-627: the signal given to fetch is that of
\* a controller of its own, which the 30 s timer aborts; request.signal is
\* not read, and no handler runs.
ClientAborts ==
  /\ \E q \in BagToSet(req) :
       /\ q.pc = "upstream"
       /\ ~q.aborted
       /\ req' = remove(req, q) (+) SetToBag({[q EXCEPT !.aborted = TRUE]})
  /\ ev' = "abort"
  /\ eng' = [eng EXCEPT !.outcome = NoOutcome, !.returned = NoReturn]
  /\ UNCHANGED <<now, breaker, call, gFails, trip, hoSucc, opened, inflight, rateVars,
                 health, restVars>>

\* proxyRequest, lines 559-563: the backoff timer of a request fires
RetryRequest ==
  \E q \in BagToSet(req) :
    /\ q.pc = "backoff"
    /\ Enter(q, remove(req, q), FALSE)

Retry == RetryRequest /\ UNCHANGED <<rateVars, restVars>>

\* fetch settles with outcome o: executeProxyRequest lines 629-640, then
\* execute lines 78-83, then proxyRequest line 542 or its catch block.
SettleRequest(o) ==
  \E q \in BagToSet(req) :
    /\ q.pc = "upstream"
    /\ IF failed(o)
       THEN /\ BreakerFailure
            /\ \E left \in bodyAfter(q) :
                 req' = afterFailure(remove(req, q), [q EXCEPT !.body = left])
            /\ health' = markUnhealthy(health)
            /\ eng' = [eng EXCEPT !.all500 = @ /\ o.kind = "response" /\ o.status = 500,
                                  !.outcome = o,
                                  !.returned = returnedAfterFailure(q)]
       ELSE /\ BreakerSuccess
            /\ req' = remove(req, q)
            /\ health' = health
            /\ eng' = [eng EXCEPT !.all500 = FALSE,
                                  !.outcome = o,
                                  !.returned = [response |-> [status |-> o.status,
                                                              from |-> "upstream"],
                                                entered |-> q.entered,
                                                contacted |-> q.contacted,
                                                host |-> q.host]]
    /\ UNCHANGED <<now, inflight>>

Settle(o) == SettleRequest(o) /\ UNCHANGED <<rateVars, restVars>>

\* For the engine the clock moves by half a timeout: failures of one instant
\* share a monitoring period, failures of two instants do not, and
\* nextAttemptTime is reached after two steps.
EngineStep == timeout \div 2

EngineTick ==
  /\ now < MaxEngineTicks * EngineStep
  /\ now' = now + EngineStep
  /\ ev' = "tick"
  /\ gFails' = recent(gFails, now')
  /\ eng' = [eng EXCEPT !.outcome = NoOutcome, !.returned = NoReturn]
  /\ UNCHANGED <<breaker, call, trip, hoSucc, opened, inflight, rateVars, req, health, restVars>>

\* ---------------------------------------------------------- route table
\* The table routes is the set of its rows.  host is its primary key; SQLite
\* compares it byte by byte.
Null == "null"
Backends == {"http://b1", "http://b2"}
ConfigHosts == {<<"a">>, <<"b">>}

rowsOf(t, h) == {row \in t : row.host = h}

\* (INSERT OR IGNORE: the first backend of a host stays)
addRoute_ignore(t, h, b) ==
  IF rowsOf(t, h) # {} THEN t ELSE t \cup {[host |-> h, backend |-> b]}

\* Config.addRoute: INSERT ... ON CONFLICT(host) DO UPDATE SET backend
addRoute(t, h, b) ==
  IF rowsOf(t, h) # {}
  THEN {IF row.host = h THEN [row EXCEPT !.backend = b] ELSE row : row \in t}
  ELSE t \cup {[host |-> h, backend |-> b]}

\* Config.removeRoute: DELETE ... WHERE host = ?, result.changes > 0
removeRoute(t, h) ==
  [table |-> t \ rowsOf(t, h), changed |-> rowsOf(t, h) # {}]

\* Config.getBackend: SELECT backend ... WHERE host = ?, the first row or null
getBackend(t, h) ==
  IF rowsOf(t, h) = {} THEN Null ELSE (CHOOSE row \in rowsOf(t, h) : TRUE).backend

\* Config.getAllRoutes, as reload reads it: the backends of the rows
backendsOf(t) == {row.backend : row \in t}

NoResult == [op |-> "none", host |-> <<>>, value |-> Null]
NoLog == [ops |-> <<>>, result |-> NoResult]

ConfigIdle ==
  /\ routes = {}
  /\ routeLog = NoLog

\* what an operation on the table leaves alone
configFrame ==
  UNCHANGED <<now, inflight, breakerVars, rateVars, engineVars, handlerVars, checkerVars,
              wireVars, supVars>>

\* rproxy add <backend> <host>
AddRoute(h, b) ==
  /\ Len(routeLog.ops) < MaxOps
  /\ routes' = addRoute(routes, h, b)
  /\ routeLog' = [ops |-> Append(routeLog.ops, [op |-> "add", host |-> h, backend |-> b]),
                  result |-> [op |-> "add", host |-> h, value |-> Null]]
  /\ configFrame

\* rproxy rm <host>
RemoveRoute(h) ==
  /\ Len(routeLog.ops) < MaxOps
  /\ routes' = removeRoute(routes, h).table
  /\ routeLog' = [ops |-> Append(routeLog.ops, [op |-> "rm", host |-> h, backend |-> Null]),
                  result |-> [op |-> "rm", host |-> h,
                              value |-> removeRoute(routes, h).changed]]
  /\ configFrame

\* a lookup of the host, as handleRequest line 712 makes it
GetBackend(h) ==
  /\ routes' = routes
  /\ routeLog' = [routeLog EXCEPT !.result =
                    [op |-> "get", host |-> h, value |-> getBackend(routes, h)]]
  /\ configFrame

\* ------------------------------------------------------- request parsing
\* A URL path is the sequence of its segments: "/a/b" is <<"a", "b">> and
\* "/a/" is <<"a", "">>.  A Host header is the sequence of its characters.
\* new URL(request.url).pathname: the URL parser drops "." segments and
\* lets ".." remove the segment before it; as last segment they leave "".
RECURSIVE dotsRemoved(_, _)
dotsRemoved(done, rest) ==
  IF rest = <<>> THEN done
  ELSE LET seg == Head(rest)
           last == Len(rest) = 1
           popped == IF done = <<>> THEN done ELSE SubSeq(done, 1, Len(done) - 1)
       IN IF seg = ".."
          THEN IF last THEN Append(popped, "") ELSE dotsRemoved(popped, Tail(rest))
          ELSE IF seg = "."
               THEN IF last THEN Append(done, "") ELSE dotsRemoved(done, Tail(rest))
               ELSE dotsRemoved(Append(done, seg), Tail(rest))

pathname(r) == dotsRemoved(<<>>, r.path)

AcmePrefix == <<".well-known", "acme-challenge">>

\* handleAcmeChallenge, line 651: pathname.startsWith("/.well-known/acme-challenge/")
isAcme(path) ==
  Len(path) >= 3 /\ SubSeq(path, 1, 2) = AcmePrefix

\* line 659: pathname.replace("/.well-known/acme-challenge/", "")
token(path) == SubSeq(path, 3, Len(path))

\* CertbotManager.acmeChallengeDir: <data-root>/acme-challenges
AcmeChallengeDir == <<"data", "acme-challenges">>

\* path.join normalises what it joins: "." and empty segments go, ".."
\* removes the segment before it, a trailing slash stays.
RECURSIVE resolved(_, _)
resolved(done, rest) ==
  IF rest = <<>> THEN done
  ELSE LET seg == Head(rest)
       IN IF seg = ".."
          THEN resolved(IF done = <<>> THEN done ELSE SubSeq(done, 1, Len(done) - 1),
                        Tail(rest))
          ELSE IF seg = "." \/ seg = ""
               THEN resolved(done, Tail(rest))
               ELSE resolved(Append(done, seg), Tail(rest))

\* join(base, last): an empty last argument is skipped, so that the slash
\* before it goes too
join(base, last) ==
  [segs |-> resolved(<<>>, base \o last),
   slash |-> Len(last) >= 2 /\ last[Len(last)] = ""]

\* handleAcmeChallenge, lines 655-660
challengePath(path) == join(AcmeChallengeDir \o AcmePrefix, token(path))

\* existsSync: a path with a trailing slash names a directory only
existsSync(d, p) ==
  /\ p.segs \in DOMAIN d
  /\ p.slash => d[p.segs].kind = "dir"

\* The answer of the ACME handler: none (null) when the path is no challenge
\* path; a thrown error when the path exists and Bun.file(path).text() cannot
\* read it, because it is a directory.  handleRequest awaits the handler
\* outside its try block, so the error reaches the error handler of
\* Bun.serve (start, lines 759-764), which answers 500.
NoAnswer == [status |-> 0, from |-> "none", body |-> <<>>, headers |-> {}]
Thrown == [status |-> 500, from |-> "thrown", body |-> <<"Internal Server Error">>,
           headers |-> {}]

handleAcmeChallenge(d, r) ==
  LET path == pathname(r)
      p == challengePath(path)
  IN IF ~isAcme(path) THEN NoAnswer
     ELSE IF existsSync(d, p)
          THEN IF d[p.segs].kind = "file"
               THEN [status |-> 200, from |-> "acme", body |-> d[p.segs].content,
                     headers |-> {<<"Content-Type", "text/plain">>}]
               ELSE Thrown
          ELSE [status |-> 404, from |-> "acme", body |-> <<"Not Found">>, headers |-> {}]

\* ExtractHost: hostHeader.split(":")[0]
RECURSIVE upTo(_, _)
upTo(chars, c) ==
  IF chars = <<>> \/ Head(chars) = c THEN <<>>
  ELSE <<Head(chars)>> \o upTo(Tail(chars), c)

extractHost(r) == upTo(r.host, ":")

\* the characters of the model that [a-z0-9] matches, case ignored
Alnum == {"a", "b", "A", "8"}

\* the labels between the dots
RECURSIVE labels(_)
labels(chars) ==
  LET first == upTo(chars, ".")
  IN IF Len(first) = Len(chars) THEN <<first>>
     ELSE <<first>> \o labels(SubSeq(chars, Len(first) + 2, Len(chars)))

\* [a-z0-9]([a-z0-9-]*[a-z0-9])?
validLabel(l) ==
  /\ l # <<>>
  /\ \A i \in 1..Len(l) : l[i] \in Alnum \cup {"-"}
  /\ l[1] \in Alnum
  /\ l[Len(l)] \in Alnum

\* (a check that lets a label start or end with a hyphen)
isValidHost_loose(h) ==
  /\ \A i \in 1..Len(labels(h)) :
       labels(h)[i] # <<>> /\ \A j \in 1..Len(labels(h)[i]) : labels(h)[i][j] \in Alnum \cup {"-"}
  /\ Len(h) <= MaxHostLength

\* SecurityManager.isValidHost
isValidHost(h) ==
  /\ \A i \in 1..Len(labels(h)) : validLabel(labels(h)[i])
  /\ Len(h) <= MaxHostLength

\* SecurityManager.getClientIp.  xff is the X-Forwarded-For header as the
\* list of its entries and xri the X-Real-IP header, <<>> when absent.
Unknown == 0

getClientIp(r) ==
  IF r.xff # <<>> THEN r.xff[1]
  ELSE IF r.xri # <<>> THEN r.xri[1]
       ELSE Unknown

\* ------------------------------------------------------------ statistics
NoStats ==
  [totalRequests |-> 0, successRequests |-> 0, failedRequests |-> 0,
   hostStats |-> [h \in {} |-> 0]]

NoHostStats == [requests |-> 0, success |-> 0, failed |-> 0, lastRequest |-> 0]

incrementTotal(st) == [st EXCEPT !.totalRequests = @ + 1]
incrementSuccess(st) == [st EXCEPT !.successRequests = @ + 1]
incrementFailed(st) == [st EXCEPT !.failedRequests = @ + 1]

\* Stats.incrementHost
incrementHost(st, host, success, t) ==
  LET old == IF host \in DOMAIN st.hostStats THEN st.hostStats[host] ELSE NoHostStats
      new == [requests |-> old.requests + 1,
              success |-> old.success + (IF success THEN 1 ELSE 0),
              failed |-> old.failed + (IF success THEN 0 ELSE 1),
              lastRequest |-> t]
  IN [st EXCEPT !.hostStats =
        [h \in DOMAIN st.hostStats \cup {host} |-> IF h = host THEN new ELSE st.hostStats[h]]]

\* ---------------------------------------------------------- handleRequest
\* The requests the model sends: a path, a Host header and the two headers
\* the client address is read from.
Ordinary == <<"index">>
Challenge(tok) == AcmePrefix \o tok

Requests ==
  {[path |-> Ordinary, host |-> h, xff |-> <<>>, xri |-> <<Watched>>] :
     h \in {<<"a">>, <<"a", ":", "8">>, <<"b">>, <<"a", " ", "!">>, <<"-", "a">>}}
    \cup {[path |-> Ordinary, host |-> <<"a">>, xff |-> f, xri |-> <<>>] :
            f \in {<<>>, <<2, Watched>>}}
    \cup {[path |-> Challenge(tok), host |-> <<"a">>, xff |-> <<Watched>>, xri |-> <<>>] :
            tok \in {<<"t">>, <<"x">>, <<"sub", "t">>, <<"t..t">>, <<"">>,
                     <<"sub", "..", "t">>, <<"..", "..", "certs", "key">>}}
    \cup {[path |-> Challenge(<<"t">>), host |-> <<"a", " ", "!">>, xff |-> <<Watched>>, xri |-> <<>>]}

\* the disk before and after certbot has answered challenges
DiskBare ==
  [p \in {<<"data">>, AcmeChallengeDir, <<"data", "certs">>, <<"data", "certs", "key">>} |->
     IF p = <<"data", "certs", "key">>
     THEN [kind |-> "file", content |-> <<"secret">>]
     ELSE [kind |-> "dir", content |-> <<>>]]

DiskUsed ==
  LET root == AcmeChallengeDir \o AcmePrefix
      files == {root \o <<"t">>, root \o <<"t..t">>, root \o <<"sub", "t">>}
      dirs == {AcmeChallengeDir \o <<".well-known">>, root, root \o <<"sub">>}
  IN [p \in DOMAIN DiskBare \cup files \cup dirs |->
        IF p \in DOMAIN DiskBare THEN DiskBare[p]
        ELSE IF p \in dirs THEN [kind |-> "dir", content |-> <<>>]
             ELSE [kind |-> "file", content |-> p]]

NoRequest == [path |-> <<>>, host |-> <<>>, xff |-> <<>>, xri |-> <<>>]
NotHandled == [request |-> NoRequest, response |-> NoAnswer, step |-> "none"]

HandlerIdle ==
  /\ front = EmptyBag
  /\ stats = NoStats
  /\ disk = DiskBare
  /\ handled = NotHandled

\* what handleRequest makes of the response of proxyRequest
relayed(ret) ==
  [status |-> ret.response.status, from |-> ret.response.from,
   body |-> IF ret.response.from = "engine"
            THEN <<"Bad Gateway - Service Unavailable">> ELSE <<"upstream">>,
   headers |-> {}]

\* Response.ok
ok(status) == 200 <= status /\ status <= 299

\* handleRequest, lines 725-731
afterProxy(st, ret, t) ==
  IF ret = NoReturn THEN st
  ELSE IF ok(ret.response.status)
       THEN incrementHost(incrementSuccess(st), ret.host, TRUE, t)
       ELSE incrementHost(incrementFailed(st), ret.host, FALSE, t)

\* the request is one that handleRequest hands to proxyRequest unless the
\* limiter stops it
routed(r) ==
  /\ ~isAcme(pathname(r))
  /\ isValidHost(extractHost(r))
  /\ getBackend(routes, extractHost(r)) # Null

\* handleRequest, lines 681-685: up to the await of the ACME handler
Receive(r) ==
  /\ server.listening
  /\ stats.totalRequests < MaxHandled
  /\ BagCardinality(front) < MaxFront
  /\ BagCardinality(front) + BagCardinality(req) < MaxConcurrent
  /\ routed(r) =>
       eng.started + BagCardinality([q \in {x \in BagToSet(front) : routed(x.request)} |-> front[q]])
         < MaxProxied
  /\ stats' = incrementTotal(stats)
  /\ front' = front (+) SetToBag({[request |-> r, acme |-> handleAcmeChallenge(disk, r)]})
  /\ handled' = [request |-> r, response |-> NoAnswer, step |-> "receive"]
  /\ UNCHANGED <<now, inflight, breakerVars, rateVars, engineVars, configVars, disk, checkerVars, wireVars, supVars>>

\* the request leaves handleRequest with response a
Answer(q, a) ==
  /\ front' = remove(front, q)
  /\ handled' = [request |-> q.request, response |-> a, step |-> "answer"]
  /\ UNCHANGED <<now, inflight, breakerVars, engineVars, configVars, disk, checkerVars, wireVars, supVars>>

\* lines 685-689: the ACME handler has answered, or has thrown
AnswerAcme(q) ==
  /\ q.acme # NoAnswer
  /\ stats' = IF q.acme = Thrown THEN stats ELSE incrementSuccess(stats)
  /\ Answer(q, q.acme)
  /\ UNCHANGED rateVars

\* (a handler that validates the host before it looks at the path)
RejectHost_first(q) ==
  /\ ~isValidHost(extractHost(q.request))
  /\ stats' = incrementFailed(stats)
  /\ Answer(q, [status |-> 400, from |-> "handler", body |-> <<"Bad Request">>, headers |-> {}])
  /\ UNCHANGED rateVars

\* lines 691-698
RejectHost(q) ==
  /\ q.acme = NoAnswer
  /\ ~isValidHost(extractHost(q.request))
  /\ stats' = incrementFailed(stats)
  /\ Answer(q, [status |-> 400, from |-> "handler", body |-> <<"Bad Request">>, headers |-> {}])
  /\ UNCHANGED rateVars

\* lines 700-709
RejectRate(q) ==
  /\ q.acme = NoAnswer
  /\ isValidHost(extractHost(q.request))
  /\ AdmitCall(getClientIp(q.request))
  /\ admitted'.limited
  /\ stats' = incrementFailed(stats)
  /\ Answer(q, [status |-> 429, from |-> "handler", body |-> <<"Too Many Requests">>,
                headers |-> {<<"Retry-After", "60">>}])

\* lines 711-720
RejectRoute(q) ==
  LET host == extractHost(q.request)
  IN /\ q.acme = NoAnswer
     /\ isValidHost(host)
     /\ AdmitCall(getClientIp(q.request))
     /\ ~admitted'.limited
     /\ getBackend(routes, host) = Null
     /\ stats' = incrementHost(incrementFailed(stats), host, FALSE, now)
     /\ Answer(q, [status |-> 502, from |-> "handler",
                   body |-> <<"No backend configured for host: ", host>>,
                   headers |-> {}])

\* lines 711-723: the request goes to proxyRequest, which runs up to the
\* await of fetch or through its catch block
Forward(q) ==
  LET host == extractHost(q.request)
  IN /\ q.acme = NoAnswer
     /\ isValidHost(host)
     /\ AdmitCall(getClientIp(q.request))
     /\ ~admitted'.limited
     /\ getBackend(routes, host) # Null
     /\ Enter([NewRequest EXCEPT !.host = host], req, TRUE)
     /\ front' = remove(front, q)
     /\ stats' = stats
     /\ handled' = [request |-> q.request, response |-> NoAnswer, step |-> "forward"]
     /\ UNCHANGED <<configVars, disk, checkerVars, wireVars, supVars>>

\* lines 723-733: proxyRequest has returned, or goes on
Returned ==
  /\ stats' = afterProxy(stats, eng'.returned, now)
  /\ handled' = [request |-> NoRequest,
                 response |-> IF eng'.returned = NoReturn THEN NoAnswer ELSE relayed(eng'.returned),
                 step |-> "proxy"]
  /\ UNCHANGED <<rateVars, configVars, front, disk, checkerVars, wireVars, supVars>>

HandleRetry == RetryRequest /\ Returned

HandleSettle(o) == SettleRequest(o) /\ Returned

\* ----------------------------------------------------------------- headers
\* A Headers object keeps one value per name, names compared without case:
\* the model keys it by the lower-case name.  A value is the list of the
\* values that were combined into it.
CaseTable ==
  {<<"Connection", "connection">>, <<"Keep-Alive", "keep-alive">>,
   <<"Proxy-Authenticate", "proxy-authenticate">>,
   <<"Proxy-Authorization", "proxy-authorization">>, <<"TE", "te">>,
   <<"Trailer", "trailer">>, <<"Transfer-Encoding", "transfer-encoding">>,
   <<"Upgrade", "upgrade">>, <<"Accept", "accept">>,
   <<"X-Forwarded-Host", "x-forwarded-host">>, <<"X-Forwarded-Proto", "x-forwarded-proto">>,
   <<"X-Forwarded-For", "x-forwarded-for">>, <<"X-Real-IP", "x-real-ip">>,
   <<"X-Frame-Options", "x-frame-options">>,
   <<"Content-Security-Policy", "content-security-policy">>,
   <<"X-Content-Type-Options", "x-content-type-options">>,
   <<"X-XSS-Protection", "x-xss-protection">>,
   <<"Strict-Transport-Security", "strict-transport-security">>,
   <<"Referrer-Policy", "referrer-policy">>, <<"Permissions-Policy", "permissions-policy">>,
   <<"Content-Type", "content-type">>}

LowerCase == [name \in {p[1] : p \in CaseTable} |-> (CHOOSE p \in CaseTable : p[1] = name)[2]]

\* name.toLowerCase(), as Headers applies it to every name
lower(name) == IF name \in DOMAIN LowerCase THEN LowerCase[name] ELSE name

NoHeaders == [k \in {} |-> <<>>]

\* Headers.set
hset(h, name, value) ==
  [k \in DOMAIN h \cup {lower(name)} |-> IF k = lower(name) THEN <<value>> ELSE h[k]]

\* Headers.append: the value joins the ones the name has
happend(h, name, value) ==
  [k \in DOMAIN h \cup {lower(name)} |->
     IF k = lower(name)
     THEN (IF k \in DOMAIN h THEN h[k] ELSE <<>>) \o <<value>>
     ELSE h[k]]

\* Headers.delete
hdelete(h, name) == [k \in DOMAIN h \ {lower(name)} |-> h[k]]

\* new Headers(init), from the header lines of a message
RECURSIVE headersOf(_)
headersOf(lines) ==
  IF lines = <<>> THEN NoHeaders
  ELSE LET last == lines[Len(lines)]
       IN happend(headersOf(SubSeq(lines, 1, Len(lines) - 1)), last[1], last[2])

\* (a list that misses the header of protocol switches)
HopByHop_short ==
  <<"connection", "keep-alive", "proxy-authenticate", "proxy-authorization",
    "te", "trailer", "transfer-encoding">>

\* executeProxyRequest, lines 598-607
HopByHop ==
  <<"connection", "keep-alive", "proxy-authenticate", "proxy-authorization",
    "te", "trailer", "transfer-encoding", "upgrade">>

RECURSIVE deleteAll(_, _)
deleteAll(h, names) ==
  IF names = <<>> THEN h ELSE deleteAll(hdelete(h, Head(names)), Tail(names))

\* url.protocol.replace(":", "")
scheme(protocol) == IF protocol = "https:" THEN "https" ELSE "http"

\* the headers of a client request as getClientIp reads them: the entries of
\* X-Forwarded-For (split at the commas) and X-Real-IP
addressHeaders(h) ==
  [xff |-> IF "x-forwarded-for" \in DOMAIN h THEN h["x-forwarded-for"] ELSE <<>>,
   xri |-> IF "x-real-ip" \in DOMAIN h THEN h["x-real-ip"] ELSE <<>>]

\* executeProxyRequest, lines 587-609: the headers of the upstream request
upstreamHeaders(c) ==
  LET h0 == headersOf(c.lines)
      clientIp == getClientIp(addressHeaders(h0))
      h1 == hset(h0, "X-Forwarded-Host", c.url.host)
      h2 == hset(h1, "X-Forwarded-Proto", scheme(c.url.protocol))
      h3 == hset(h2, "X-Forwarded-For", clientIp)
      h4 == hset(h3, "X-Real-IP", clientIp)
  IN deleteAll(h4, HopByHop)

SecurityHeaders ==
  <<<<"X-Frame-Options", "DENY">>,
    <<"Content-Security-Policy", "frame-ancestors 'none'">>,
    <<"X-Content-Type-Options", "nosniff">>,
    <<"X-XSS-Protection", "1; mode=block">>,
    <<"Strict-Transport-Security", "max-age=31536000; includeSubDomains; preload">>,
    <<"Referrer-Policy", "strict-origin-when-cross-origin">>,
    <<"Permissions-Policy",
      "geolocation=(), microphone=(), camera=(), payment=(), usb=(), magnetometer=(), gyroscope=(), accelerometer=()">>>>

RECURSIVE setAll(_, _)
setAll(h, pairs) ==
  IF pairs = <<>> THEN h ELSE setAll(hset(h, Head(pairs)[1], Head(pairs)[2]), Tail(pairs))

RECURSIVE appendAll(_, _)
appendAll(h, pairs) ==
  IF pairs = <<>> THEN h
  ELSE appendAll(happend(h, Head(pairs)[1], Head(pairs)[2]), Tail(pairs))

\* (a manager that appends its headers to the ones the upstream sent)
addSecurityHeaders_append(response) ==
  [status |-> response.status,
   headers |-> appendAll(headersOf(response.lines), SecurityHeaders)]

\* SecurityManager.addSecurityHeaders
addSecurityHeaders(response) ==
  [status |-> response.status,
   headers |-> setAll(headersOf(response.lines), SecurityHeaders)]

\* the header lines of a message: up to MaxHeaders lines of a pool
linesOf(pool) ==
  UNION {[1..n -> pool] : n \in 0..MaxHeaders}

ClientPool ==
  {<<"Connection", "upgrade">>, <<"Keep-Alive", "timeout=5">>,
   <<"Proxy-Authenticate", "Basic">>, <<"Proxy-Authorization", "Basic xyz">>,
   <<"TE", "trailers">>, <<"Trailer", "Expires">>, <<"Transfer-Encoding", "chunked">>,
   <<"Upgrade", "websocket">>, <<"upgrade", "h2c">>, <<"Accept", "text/html">>,
   <<"X-Forwarded-For", 2>>, <<"X-Real-IP", 3>>, <<"X-Forwarded-Host", "evil">>}

ClientRequests ==
  {[lines |-> l, url |-> [host |-> "a:8", protocol |-> pr]] :
     l \in linesOf(ClientPool), pr \in {"http:", "https:"}}

UpstreamPool ==
  {<<"X-Frame-Options", "SAMEORIGIN">>, <<"x-frame-options", "ALLOWALL">>,
   <<"Strict-Transport-Security", "max-age=0">>, <<"Content-Type", "text/html">>}

Statuses == {200, 301, 404, 499, 500}

\* the headers of a response matter when it is relayed
UpstreamResponses ==
  {[status |-> st, lines |-> l] : st \in {x \in Statuses : x < 500}, l \in linesOf(UpstreamPool)}
    \cup {[status |-> st, lines |-> <<>>] : st \in {x \in Statuses : x >= 500}}

NoClient == [lines |-> <<>>, url |-> [host |-> "", protocol |-> ""]]
NoUpstream == [status |-> 0, lines |-> <<>>]
NoRelay == [status |-> 0, headers |-> NoHeaders]

WireIdle ==
  wire = [client |-> NoClient, attempt |-> 0, sent |-> NoHeaders,
          response |-> NoUpstream, relayed |-> NoRelay]

\* proxyRequest has been called with request c
accepted(c) ==
  [client |-> c, attempt |-> 0, sent |-> NoHeaders,
   response |-> NoUpstream, relayed |-> NoRelay]

\* what an exchange with the upstream leaves alone, seen by itself
wireFrame ==
  UNCHANGED <<now, inflight, breakerVars, rateVars, engineVars, configVars, handlerVars,
              checkerVars, supVars>>

\* executeProxyRequest, lines 583-620: an attempt, the first or a retry,
\* builds its headers and calls fetch
Fetch ==
  /\ wire.client # NoClient
  /\ wire.sent = NoHeaders
  /\ wire.attempt <= maxRetries
  /\ wire' = [wire EXCEPT !.attempt = @ + 1, !.sent = upstreamHeaders(wire.client)]
  /\ wireFrame

\* lines 629-636: the upstream answers; a status from 500 on is thrown, and
\* the attempt is over
Respond(r) ==
  /\ wire.sent # NoHeaders
  /\ IF r.status >= 500
     THEN wire' = [wire EXCEPT !.sent = NoHeaders,
                               !.client = IF wire.attempt > maxRetries THEN NoClient ELSE @,
                               !.attempt = IF wire.attempt > maxRetries THEN 0 ELSE @]
     ELSE wire' = [client |-> NoClient, attempt |-> 0, sent |-> NoHeaders,
                   response |-> r, relayed |-> addSecurityHeaders(r)]
  /\ wireFrame

\* --------------------------------------------------------- health checker
\* checker.healthStatus maps the backends that have a record to it;
\* checker.checkIntervals is the set of the backends that have an entry in
\* the map of that name, and timers holds, for every interval timer that is
\* set in the runtime, the backend its callback probes.  A probe in progress
\* waits for its first fetch (GET /health) or for its second (HEAD /).  In
\* the engine specifications health is healthStatus for the one backend.
NoChecker == [healthStatus |-> [b \in {} |-> NewStatus], checkIntervals |-> {}]
NotProbed == [op |-> "none", backend |-> Null, result |-> "none", was |-> "none"]

CheckerIdle ==
  /\ checker = NoChecker
  /\ timers = EmptyBag
  /\ probes = EmptyBag
  /\ probed = NotProbed

\* the state the checker's methods work on
works == [checker |-> checker, timers |-> timers, probes |-> probes]

\* Map.set and Map.delete on healthStatus
statusSet(hs, b, status) == [k \in DOMAIN hs \cup {b} |-> IF k = b THEN status ELSE hs[k]]
statusDelete(hs, b) == [k \in DOMAIN hs \ {b} |-> hs[k]]

\* checkHealth up to its first await: the probe waits for GET /health
checkHealth(w, b) ==
  [w EXCEPT !.probes = @ (+) SetToBag({[backend |-> b, leg |-> 1]})]

\* (a checker that starts a prober whenever it is asked to)
startChecking_again(w, b) ==
  LET w1 == [w EXCEPT !.checker.healthStatus = statusSet(@, b, NewStatus)]
      w2 == checkHealth(w1, b)
  IN [w2 EXCEPT !.timers = @ (+) SetToBag({b}),
                !.checker.checkIntervals = @ \cup {b}]

\* HealthChecker.startChecking
startChecking(w, b) ==
  IF b \in w.checker.checkIntervals THEN w
  ELSE LET w1 == [w EXCEPT !.checker.healthStatus = statusSet(@, b, NewStatus)]
           w2 == checkHealth(w1, b)
       IN [w2 EXCEPT !.timers = @ (+) SetToBag({b}),
                     !.checker.checkIntervals = @ \cup {b}]

\* HealthChecker.stopChecking
stopChecking(w, b) ==
  LET w1 == IF b \in w.checker.checkIntervals
            THEN [w EXCEPT !.timers = @ (-) SetToBag({b}),
                           !.checker.checkIntervals = @ \ {b}]
            ELSE w
  IN [w1 EXCEPT !.checker.healthStatus = statusDelete(@, b)]

\* a method applied to each backend of a set, one after the other
RECURSIVE startEach(_, _)
startEach(w, bs) ==
  IF bs = {} THEN w
  ELSE LET b == CHOOSE x \in bs : TRUE
       IN startEach(startChecking(w, b), bs \ {b})

RECURSIVE stopEach(_, _)
stopEach(w, bs) ==
  IF bs = {} THEN w
  ELSE LET b == CHOOSE x \in bs : TRUE
       IN stopEach(stopChecking(w, b), bs \ {b})

\* HealthChecker.stopAll: the keys of checkIntervals
stopAll(w) == stopEach(w, w.checker.checkIntervals)

\* (a reload that starts the probers of the routes and stops none)
reload_keep(w, t) == startEach(w, backendsOf(t))

\* ReverseProxy.reload: start for every route, then stop for every key of
\* healthStatus that is no backend of a route
reload(w, t) ==
  LET w1 == startEach(w, backendsOf(t))
  IN stopEach(w1, DOMAIN w1.checker.healthStatus \ backendsOf(t))

\* the threshold of the checker (failureThreshold of HealthChecker)
probeFailureThreshold == 3

\* (a checker in which a success resets the counters and leaves the verdict)
recordResult_sticky(hs, b, healthy) ==
  LET status == IF b \in DOMAIN hs THEN hs[b] ELSE NewStatus
      new == IF healthy
             THEN [healthy |-> status.healthy,
                   consecutiveFailures |-> 0,
                   consecutiveSuccesses |-> status.consecutiveSuccesses + 1]
             ELSE [healthy |-> status.healthy
                                 /\ ~(status.consecutiveFailures + 1 >= probeFailureThreshold),
                   consecutiveFailures |-> status.consecutiveFailures + 1,
                   consecutiveSuccesses |-> 0]
  IN statusSet(hs, b, new)

\* HealthChecker.recordResult
recordResult(hs, b, healthy) ==
  LET status == IF b \in DOMAIN hs THEN hs[b] ELSE NewStatus
      new == IF healthy
             THEN [healthy |-> TRUE,
                   consecutiveFailures |-> 0,
                   consecutiveSuccesses |-> status.consecutiveSuccesses + 1]
             ELSE [healthy |-> status.healthy
                                 /\ ~(status.consecutiveFailures + 1 >= probeFailureThreshold),
                   consecutiveFailures |-> status.consecutiveFailures + 1,
                   consecutiveSuccesses |-> 0]
  IN statusSet(hs, b, new)

\* the streak a result would lengthen
streak(hs, b, healthy) ==
  IF b \notin DOMAIN hs THEN 0
  ELSE IF healthy THEN hs[b].consecutiveSuccesses ELSE hs[b].consecutiveFailures

\* healthStatus.get(backend)?.healthy, as the history keeps it
verdict(hs, b) ==
  IF b \notin DOMAIN hs THEN "none"
  ELSE IF hs[b].healthy THEN "healthy" ELSE "unhealthy"

\* history of a call of recordResult: the result, and the verdict before it
recorded(op, b, healthy) ==
  [op |-> op, backend |-> b,
   result |-> IF healthy THEN "healthy" ELSE "unhealthy",
   was |-> verdict(checker.healthStatus, b)]

\* HealthChecker.markUnhealthy, on the table of the checker
markBackend(hs, b) ==
  IF b \in DOMAIN hs
  THEN [hs EXCEPT ![b] = CHOOSE status \in markUnhealthy({hs[b]}) : TRUE]
  ELSE hs

\* what the checker leaves alone
checkerFrame ==
  UNCHANGED <<now, inflight, breakerVars, rateVars, engineVars, routeLog, handlerVars,
              wireVars, supVars>>

takes(w) ==
  /\ checker' = w.checker
  /\ timers' = w.timers
  /\ probes' = w.probes
  /\ checkerFrame

\* start, reload or another caller: startChecking(b)
StartChecking(b) ==
  /\ BagCardinality(probes) < MaxProbes
  /\ takes(startChecking(works, b))
  /\ probed' = [op |-> "start", backend |-> b, result |-> "none", was |-> "none"]
  /\ UNCHANGED routes

StopChecking(b) ==
  /\ takes(stopChecking(works, b))
  /\ probed' = [op |-> "stop", backend |-> b, result |-> "none", was |-> "none"]
  /\ UNCHANGED routes

\* ReverseProxy.stop, line 837
StopAll ==
  /\ takes(stopAll(works))
  /\ probed' = [op |-> "stopAll", backend |-> Null, result |-> "none", was |-> "none"]
  /\ UNCHANGED routes

\* (a reload that makes the breaker anew)
Reload_fresh ==
  /\ BagCardinality(reload(works, routes).probes) <= MaxProbes
  /\ checker' = reload(works, routes).checker
  /\ timers' = reload(works, routes).timers
  /\ probes' = reload(works, routes).probes
  /\ probed' = [op |-> "reload", backend |-> Null, result |-> "none", was |-> "none"]
  /\ breaker' = NewBreaker
  /\ UNCHANGED <<now, inflight, ev, call, gFails, trip, hoSucc, opened, rateVars,
                 engineVars, configVars, handlerVars, wireVars, supVars>>

\* SIGHUP
Reload ==
  /\ BagCardinality(reload(works, routes).probes) <= MaxProbes
  /\ takes(reload(works, routes))
  /\ probed' = [op |-> "reload", backend |-> Null, result |-> "none", was |-> "none"]
  /\ UNCHANGED routes

\* the interval timer of b fires: checkHealth(b)
TimerFires(b) ==
  /\ BagIn(b, timers)
  /\ BagCardinality(probes) < MaxProbes
  /\ takes(checkHealth(works, b))
  /\ probed' = [op |-> "fire", backend |-> b, result |-> "none", was |-> "none"]
  /\ UNCHANGED routes

\* what a fetch of a probe can do
ProbeOutcomes ==
  {[kind |-> "response", status |-> st] : st \in {200, 404, 500}}
    \cup {[kind |-> "error", status |-> 0]}

\* checkHealth, lines 100-124: GET /health has answered, failed or timed out
FirstLeg(p, o) ==
  /\ BagIn(p, probes)
  /\ p.leg = 1
  /\ IF o.kind = "response"
     THEN LET healthy == o.status < 500 \/ o.status = 404
          IN /\ streak(checker.healthStatus, p.backend, healthy) < MaxStreak
             /\ checker' = [checker EXCEPT !.healthStatus = recordResult(@, p.backend, healthy)]
             /\ probes' = remove(probes, p)
             /\ probed' = recorded("leg1", p.backend, healthy)
     ELSE /\ checker' = checker
          /\ probes' = remove(probes, p) (+) SetToBag({[p EXCEPT !.leg = 2]})
          /\ probed' = [op |-> "leg1", backend |-> p.backend, result |-> "none", was |-> "none"]
  /\ UNCHANGED <<timers, routes>>
  /\ checkerFrame

\* lines 126-151: HEAD / has answered, failed or timed out
SecondLeg(p, o) ==
  /\ BagIn(p, probes)
  /\ p.leg = 2
  /\ LET healthy == o.kind = "response" /\ o.status < 500
     IN /\ streak(checker.healthStatus, p.backend, healthy) < MaxStreak
        /\ checker' = [checker EXCEPT !.healthStatus = recordResult(@, p.backend, healthy)]
        /\ probed' = recorded("leg2", p.backend, healthy)
  /\ probes' = remove(probes, p)
  /\ UNCHANGED <<timers, routes>>
  /\ checkerFrame

\* proxyRequest, line 556: a request to the backend has failed
MarkUnhealthy(b) ==
  /\ streak(checker.healthStatus, b, FALSE) < MaxStreak
  /\ checker' = [checker EXCEPT !.healthStatus = markBackend(@, b)]
  /\ probed' = [op |-> "mark", backend |-> b, result |-> "none",
                was |-> verdict(checker.healthStatus, b)]
  /\ UNCHANGED <<timers, probes, routes>>
  /\ checkerFrame

\* rproxy add / rproxy rm, run while the server is up
ChangeRoute(h) ==
  /\ \/ \E b \in Backends : routes' = addRoute(routes, h, b)
     \/ routes' = removeRoute(routes, h).table
  /\ routes' # routes
  /\ probed' = [op |-> "route", backend |-> Null, result |-> "none", was |-> "none"]
  /\ UNCHANGED <<checker, timers, probes>>
  /\ checkerFrame

\* ------------------------------------------------------------ the process
\* start() has returned: the listeners accept connections and the handle of
\* the route table is open.  The three servers stop together; listening
\* stands for all of them.
Up == [phase |-> "up", listening |-> TRUE, db |-> "open"]

ServerIdle == server = Up

\* ------------------------------------------------------- specifications
RateInit ==
  /\ now = 0
  /\ breaker = NewBreaker
  /\ inflight = 0
  /\ HistInit
  /\ RateIdle
  /\ EngineIdle
  /\ ConfigIdle
  /\ HandlerIdle
  /\ CheckerIdle
  /\ WireIdle
  /\ ServerIdle

RateNext == RateTick \/ \E ip \in Ips : Admit(ip)

SpecRate == RateInit /\ [][RateNext]_vars

\* start() has put the backend under check, or its route was added later
EngineInit ==
  /\ now = 0
  /\ breaker = NewBreaker
  /\ inflight = 0
  /\ HistInit
  /\ RateIdle
  /\ req = EmptyBag
  /\ health \in {{}, {NewStatus}}
  /\ eng = NoHistory
  /\ ConfigIdle
  /\ HandlerIdle
  /\ CheckerIdle
  /\ WireIdle
  /\ ServerIdle

EngineNext ==
  \/ EngineTick
  \/ Arrive
  \/ Retry
  \/ \E o \in Outcomes : Settle(o)

SpecEngine == EngineInit /\ [][EngineNext]_vars

\* ------------------------------------------- the engine and its clients
\* Requests with and without a body, and clients that go away; the clock
\* stands still.
ClientNext ==
  \/ Arrive
  \/ ArriveBody
  \/ ClientAborts
  \/ Retry
  \/ \E o \in Outcomes : Settle(o)

SpecClient == EngineInit /\ [][ClientNext]_vars

\* ---------------------------------------------- the breaker on its own
\* Any caller: operations are admitted at any time and settle in any order.
Execute ==
  /\ BreakerExecute
  /\ call'.result = "invoked" => inflight < MaxInflight
  /\ inflight' = IF call'.result = "invoked" THEN inflight + 1 ELSE inflight
  /\ UNCHANGED <<now, rateVars, engineVars, restVars>>

OpSucceeds ==
  /\ inflight > 0
  /\ breaker.consecutiveSuccesses < MaxCount
  /\ BreakerSuccess
  /\ inflight' = inflight - 1
  /\ UNCHANGED <<now, rateVars, engineVars, restVars>>

OpFails ==
  /\ inflight > 0
  /\ breaker.consecutiveFailures < MaxCount
  /\ BreakerFailure
  /\ inflight' = inflight - 1
  /\ UNCHANGED <<now, rateVars, engineVars, restVars>>

BreakerInit ==
  /\ now = 0
  /\ breaker = NewBreaker
  /\ inflight = 0
  /\ HistInit
  /\ RateIdle
  /\ EngineIdle
  /\ ConfigIdle
  /\ HandlerIdle
  /\ CheckerIdle
  /\ WireIdle
  /\ ServerIdle

BreakerNext == Tick \/ Execute \/ OpSucceeds \/ OpFails

SpecBreaker == BreakerInit /\ [][BreakerNext]_vars

\* ------------------------------------------- the breaker of a backend that
\* recovers: operations fail up to LastFailure and succeed from then on, which
\* leaves the clock the timeout it needs after the last opening.  The clock
\* moves, callers keep calling execute and every operation settles.
LastFailure == MaxTime - timeout

OpFailsEarly ==
  /\ now <= LastFailure
  /\ OpFails

RecoveryNext == Tick \/ Execute \/ OpSucceeds \/ OpFailsEarly

SpecRecovery ==
  /\ BreakerInit
  /\ [][RecoveryNext]_vars
  /\ WF_vars(Tick)
  /\ WF_vars(Execute)
  /\ WF_vars(OpSucceeds)

\* ------------------------------------------------ the route table alone
RoutesInit ==
  /\ now = 0
  /\ breaker = NewBreaker
  /\ inflight = 0
  /\ HistInit
  /\ RateIdle
  /\ EngineIdle
  /\ ConfigIdle
  /\ HandlerIdle
  /\ CheckerIdle
  /\ WireIdle
  /\ ServerIdle

RoutesNext ==
  \/ \E h \in ConfigHosts, b \in Backends : AddRoute(h, b)
  \/ \E h \in ConfigHosts : RemoveRoute(h)
  \/ \E h \in ConfigHosts : GetBackend(h)

SpecRoutes == RoutesInit /\ [][RoutesNext]_vars

\* -------------------------------------------------- the request pipeline
\* The server runs with one route, to the backend of the breaker.
HandleInit ==
  /\ now = 0
  /\ breaker = NewBreaker
  /\ inflight = 0
  /\ HistInit
  /\ RateIdle
  /\ req = EmptyBag
  /\ health = {NewStatus}
  /\ eng = NoHistory
  /\ routes = {[host |-> <<"a">>, backend |-> "http://b1"]}
  /\ routeLog = NoLog
  /\ front = EmptyBag
  /\ stats = NoStats
  /\ disk = DiskUsed
  /\ handled = NotHandled
  /\ CheckerIdle
  /\ WireIdle
  /\ ServerIdle

HandleNext ==
  \/ \E r \in Requests : Receive(r)
  \/ \E q \in BagToSet(front) : AnswerAcme(q)
  \/ \E q \in BagToSet(front) : RejectHost(q)
  \/ \E q \in BagToSet(front) : RejectRate(q)
  \/ \E q \in BagToSet(front) : RejectRoute(q)
  \/ \E q \in BagToSet(front) : Forward(q)
  \/ HandleRetry
  \/ \E o \in Outcomes : HandleSettle(o)

SpecHandle == HandleInit /\ [][HandleNext]_vars

\* --------------------------------------------- the pipeline, by Host header
\* The same server, and requests that differ in their Host header only: the
\* host of the route, in upper case, with a port, and a header without a host.
HostHeaders ==
  {<<"a">>, <<"A">>, <<"a", ":", "8">>, <<"A", ":", "8">>, <<":", "8">>}

HostRequests ==
  {[path |-> Ordinary, host |-> h, xff |-> <<>>, xri |-> <<Watched>>] : h \in HostHeaders}

HostNext ==
  \/ \E r \in HostRequests : Receive(r)
  \/ \E q \in BagToSet(front) : RejectHost(q)
  \/ \E q \in BagToSet(front) : RejectRate(q)
  \/ \E q \in BagToSet(front) : RejectRoute(q)
  \/ \E q \in BagToSet(front) : Forward(q)
  \/ HandleRetry
  \/ \E o \in Outcomes : HandleSettle(o)

SpecHost == HandleInit /\ [][HostNext]_vars

\* ------------------------------------------------------------- shutdown
\* ReverseProxy.stop, lines 833-865, up to its await: the probers are
\* stopped and the three servers are told to stop
Signal ==
  /\ server.phase = "up"
  /\ checker' = stopAll(works).checker
  /\ timers' = stopAll(works).timers
  /\ probes' = stopAll(works).probes
  /\ probed' = [op |-> "stopAll", backend |-> Null, result |-> "none", was |-> "none"]
  /\ server' = [server EXCEPT !.phase = "stopping", !.listening = FALSE]
  /\ UNCHANGED <<now, inflight, breakerVars, rateVars, engineVars, configVars, handlerVars,
                 wireVars>>

\* stop, lines 867-870: the promises were resolved when they were made, so
\* stop resumes before any other handler runs, and closes the table
Close ==
  /\ server.phase = "stopping"
  /\ server' = [server EXCEPT !.phase = "closed", !.db = "closed"]
  /\ UNCHANGED <<now, inflight, breakerVars, rateVars, engineVars, configVars, handlerVars,
                 checkerVars, wireVars>>

\* server.ts, lines 13-21: stop has returned, process.exit(0)
Exit ==
  /\ server.phase = "closed"
  /\ server' = [server EXCEPT !.phase = "exited"]
  /\ UNCHANGED <<now, inflight, breakerVars, rateVars, engineVars, configVars, handlerVars,
                 checkerVars, wireVars>>

\* Handlers of requests, timers and fetches run between two handlers of the
\* process: none runs between the signal and the exit, where stop waits for
\* promises that are resolved already.
Serving == server.phase = "up"

ShutdownRequests ==
  {[path |-> Ordinary, host |-> <<"a">>, xff |-> <<>>, xri |-> <<Watched>>]}

\* start(), lines 744-752: a prober for the backend of every route
ShutdownInit ==
  /\ now = 0
  /\ breaker = NewBreaker
  /\ inflight = 0
  /\ HistInit
  /\ RateIdle
  /\ req = EmptyBag
  /\ health = {NewStatus}
  /\ eng = NoHistory
  /\ routes = {[host |-> <<"a">>, backend |-> "http://b1"]}
  /\ routeLog = NoLog
  /\ HandlerIdle
  /\ checker = startEach([checker |-> NoChecker, timers |-> EmptyBag, probes |-> EmptyBag],
                         {"http://b1"}).checker
  /\ timers = SetToBag({"http://b1"})
  /\ probes = SetToBag({[backend |-> "http://b1", leg |-> 1]})
  /\ probed = NotProbed
  /\ WireIdle
  /\ ServerIdle

ShutdownNext ==
  \/ Serving /\ \E r \in ShutdownRequests : Receive(r)
  \/ Serving /\ \E q \in BagToSet(front) : Forward(q)
  \/ Serving /\ HandleRetry
  \/ Serving /\ \E o \in Outcomes : HandleSettle(o)
  \/ Serving /\ \E b \in Backends : TimerFires(b)
  \/ Serving /\ \E p \in BagToSet(probes), o \in ProbeOutcomes : FirstLeg(p, o)
  \/ Serving /\ \E p \in BagToSet(probes), o \in ProbeOutcomes : SecondLeg(p, o)
  \/ Signal
  \/ Close
  \/ Exit

SpecShutdown == ShutdownInit /\ [][ShutdownNext]_vars

\* ------------------------------------------------- reload under traffic
\* The server of ShutdownInit, with requests, changes of the route of host
\* a by the CLI, and SIGHUP; the probes that are sent stay unanswered.
ReloadNext ==
  \/ \E r \in ShutdownRequests : Receive(r)
  \/ \E q \in BagToSet(front) : RejectRoute(q)
  \/ \E q \in BagToSet(front) : Forward(q)
  \/ HandleRetry
  \/ \E o \in Outcomes : HandleSettle(o)
  \/ ChangeRoute(<<"a">>)
  \/ Reload

SpecReload == ShutdownInit /\ [][ReloadNext]_vars

\* ------------------------------------------------- the headers on their own
HeadersInit ==
  /\ now = 0
  /\ breaker = NewBreaker
  /\ inflight = 0
  /\ HistInit
  /\ RateIdle
  /\ EngineIdle
  /\ ConfigIdle
  /\ HandlerIdle
  /\ CheckerIdle
  /\ wire \in {accepted(c) : c \in ClientRequests}
  /\ ServerIdle

HeadersNext ==
  \/ Fetch
  \/ \E r \in UpstreamResponses : Respond(r)

SpecHeaders == HeadersInit /\ [][HeadersNext]_vars

\* ------------------------------------------- the health checker on its own
\* The route table has any content it can have; the checker is called by
\* start, reload and stop, its timers fire and its probes end in any order.
Tables ==
  {t \in SUBSET [host : ConfigHosts, backend : Backends] :
     \A h \in ConfigHosts : Cardinality(rowsOf(t, h)) <= 1}

HealthInit ==
  /\ now = 0
  /\ breaker = NewBreaker
  /\ inflight = 0
  /\ HistInit
  /\ RateIdle
  /\ EngineIdle
  /\ routes \in Tables
  /\ routeLog = NoLog
  /\ HandlerIdle
  /\ CheckerIdle
  /\ WireIdle
  /\ ServerIdle

HealthNext ==
  \/ \E b \in Backends : StartChecking(b)
  \/ \E b \in Backends : StopChecking(b)
  \/ StopAll
  \/ Reload
  \/ \E b \in Backends : TimerFires(b)
  \/ \E p \in BagToSet(probes), o \in ProbeOutcomes : FirstLeg(p, o)
  \/ \E p \in BagToSet(probes), o \in ProbeOutcomes : SecondLeg(p, o)
  \/ \E b \in Backends : MarkUnhealthy(b)
  \/ \E h \in ConfigHosts : ChangeRoute(h)

SpecHealth == HealthInit /\ [][HealthNext]_vars

\* ---------------------------------------------------- rate limiter claims
\* C1 as stated: whatever calls for other IPs come in between, table overflow
\* included, at most maxRequestsPerMinute calls for the IP are answered "not
\* limited" in the windowMs that follow the call that opened its window.
C1_AtMostMaxPerWindow == win.ok <= maxRequestsPerMinute

\* C1 amended: the same bound, for an IP whose entry is not evicted from the
\* table during the window.
C1_AtMostMaxUnlessEvicted ==
  ~win.evicted => win.ok <= maxRequestsPerMinute

C1_Witness ==
  /\ ~win.evicted
  /\ win.ok = maxRequestsPerMinute
  /\ admitted = [ip |-> Watched, limited |-> TRUE]
  /\ Len(cache) = capacity
  /\ now = win.open + windowMs

\* ------------------------------------------------- circuit breaker claims
\* C2: once failureThreshold failures within monitoringPeriod of each other
\* have been recorded on a CLOSED breaker (successes in between do not
\* matter), the next execute made before the timeout has elapsed sees OPEN
\* and is rejected: the breaker record is untouched and no operation starts.
C2_OpenAfterThreshold ==
  [][(ev' = "execute" /\ trip # NoTrip /\ now < trip + timeout)
       => /\ call'.saw = "OPEN"
          /\ call'.result = "rejected"
          /\ breaker' = breaker
          /\ inflight' = inflight]_vars

C2_Witness ==
  /\ ev = "execute"
  /\ call = [saw |-> "OPEN", result |-> "rejected"]
  /\ opened.by = "threshold"
  /\ Len(gFails) >= failureThreshold
  /\ breaker.consecutiveFailures < failureThreshold

\* C3: OPEN is entered with nextAttemptTime = now + timeout; an execute on an
\* OPEN breaker with now < nextAttemptTime is rejected, starts no operation
\* and leaves the record as it is; an execute with now >= nextAttemptTime
\* moves the breaker to HALF_OPEN and starts the operation.
C3_OpenForTimeout ==
  [][/\ (breaker.state # "OPEN" /\ breaker'.state = "OPEN")
          => breaker'.nextAttemptTime = now + timeout
     /\ (ev' = "execute" /\ breaker.state = "OPEN")
          => IF now < breaker.nextAttemptTime
             THEN /\ call'.result = "rejected"
                  /\ breaker' = breaker
                  /\ inflight' = inflight
             ELSE /\ call'.result = "invoked"
                  /\ breaker'.state = "HALF_OPEN"
                  /\ inflight' = inflight + 1]_vars

C3_Witness ==
  /\ ev = "execute"
  /\ call = [saw |-> "OPEN", result |-> "invoked"]
  /\ breaker.state = "HALF_OPEN"
  /\ now = breaker.nextAttemptTime

\* C4: a failure that settles while the breaker is HALF_OPEN, whatever else
\* is in flight, returns it to OPEN with nextAttemptTime = the time of the
\* failure + timeout and consecutiveSuccesses = 0.
C4_HalfOpenFailureReopens ==
  [][(ev' = "failure" /\ breaker.state = "HALF_OPEN")
       => /\ breaker'.state = "OPEN"
          /\ breaker'.nextAttemptTime = now + timeout
          /\ breaker'.consecutiveSuccesses = 0]_vars

C4_Witness ==
  /\ ev = "failure"
  /\ breaker.state = "OPEN"
  /\ opened = [at |-> now, by |-> "halfopen"]
  /\ inflight >= 1

\* C5: the breaker goes from HALF_OPEN to CLOSED only when a success settles
\* that is the successThreshold-th success in a row since HALF_OPEN was
\* entered, and the failure timestamps are empty afterwards.
C5_ClosesAfterTwoSuccesses ==
  [][(breaker.state = "HALF_OPEN" /\ breaker'.state = "CLOSED")
       => /\ ev' = "success"
          /\ hoSucc + 1 = successThreshold
          /\ breaker'.failureTimestamps = <<>>]_vars

C5_Witness ==
  /\ ev = "success"
  /\ breaker.state = "CLOSED"
  /\ opened.by # "none"
  /\ breaker.consecutiveSuccesses = successThreshold
  /\ breaker.failureTimestamps = <<>>
  /\ inflight >= 1

\* C6: the breaker goes from CLOSED to OPEN only when a failure is recorded
\* after which at least failureThreshold failures recorded since it became
\* CLOSED lie in the monitoring period that ends at that failure.
C6_OpensOnlyAtThreshold ==
  [][(breaker.state = "CLOSED" /\ breaker'.state = "OPEN")
       => /\ ev' = "failure"
          /\ Len(recent(gFails', now)) >= failureThreshold]_vars

C6_Witness ==
  /\ ev = "failure"
  /\ breaker.state = "OPEN"
  /\ opened = [at |-> now, by |-> "threshold"]
  /\ Len(gFails) = failureThreshold
  /\ gFails[1] < now
  /\ breaker.consecutiveFailures < failureThreshold

\* C7 as stated: at every instant an OPEN breaker has nextAttemptTime > now,
\* or it was opened by a failure in HALF_OPEN.
C7_OpenImpliesTimeLeft ==
  breaker.state = "OPEN"
    => (breaker.nextAttemptTime > now \/ opened.by = "halfopen")

\* C7 amended: an OPEN breaker was opened by the threshold or by a failure in
\* HALF_OPEN, has nextAttemptTime = the time it opened + timeout, and has
\* nextAttemptTime > now whenever an execute has just looked at it.
C7_OpenSinceOpened ==
  breaker.state = "OPEN"
    => /\ opened.by \in {"threshold", "halfopen"}
       /\ opened.at <= now
       /\ breaker.nextAttemptTime = opened.at + timeout
       /\ (ev = "execute" => breaker.nextAttemptTime > now)

C7_Witness ==
  /\ breaker.state = "OPEN"
  /\ opened.by = "threshold"
  /\ now > breaker.nextAttemptTime

\* -------------------------------------------------------- engine claims
\* the requests of the bag at position pc
count(bag, pc) ==
  BagCardinality([q \in {x \in BagToSet(bag) : x.pc = pc} |-> bag[q]])

\* While every answer of the upstream was a failure, consecutiveFailures
\* counts the calls of the upstream that have settled.
attempts(b, bag) == b.consecutiveFailures + count(bag, "upstream")

\* a request was sent to the backoff timer in this step
RetryScheduled ==
  \E q \in BagToSet(req') :
    q.pc = "backoff" /\ CopiesIn(q, req') > CopiesIn(q, req)

\* the step was an attempt that failed: the operation threw, or the breaker did
FailureStep == ev' = "failure" \/ (ev' = "execute" /\ call'.result = "rejected")

arrived == eng'.started - eng.started

\* the steps a request can still take: two for each attempt it has left, one
\* more while its call of the upstream is in flight
remaining(q) ==
  2 * (maxRetries + 1 - q.entered) + (IF q.pc = "upstream" THEN 1 ELSE 0)

work(bag) == BagCardinality([q \in BagToSet(bag) |-> bag[q] * remaining(q)])

C8_Scenario ==
  /\ (now - eng'.firstAt <= monitoringPeriod)
       => /\ attempts(breaker', req') <= failureThreshold
          /\ breaker'.consecutiveFailures >= failureThreshold
               => breaker'.state = "OPEN"
  /\ (ev' = "execute" /\ breaker.state = "OPEN" /\ now < opened.at + timeout)
       => /\ call'.result = "rejected"
          /\ count(req', "upstream") = count(req, "upstream")
          /\ eng'.returned.response = BadGateway \/ RetryScheduled
  /\ (ev' = "execute" /\ breaker.state = "OPEN" /\ now >= opened.at + timeout)
       => /\ call'.result = "invoked"
          /\ breaker'.state = "HALF_OPEN"
          /\ count(req', "upstream") = 1
  /\ eng'.returned # NoReturn => eng'.returned.response = BadGateway

\* C8 as stated: while the upstream answers 500 to every attempt, the
\* attempts made within one monitoring period reach the upstream at most
\* failureThreshold times and the breaker is OPEN once that many have failed;
\* an attempt made on the OPEN breaker before opening + timeout is rejected
\* without a call of the upstream and its client gets the 502 (at once, or
\* after its remaining retries); the attempt made at or after opening +
\* timeout is forwarded in HALF_OPEN, alone; no client gets anything but 502.
C8_ExactlyFiveAttempts ==
  [][eng'.all500 => C8_Scenario]_vars

\* C8 amended: the same, for attempts made one at a time, no two calls of the
\* upstream in flight together.
C8_FiveAttemptsOneAtATime ==
  [][(eng'.all500 /\ ~eng'.overlap) => C8_Scenario]_vars

C8_Witness ==
  /\ eng.all500
  /\ ~eng.overlap
  /\ breaker.consecutiveFailures = failureThreshold + 1
  /\ opened = [at |-> now, by |-> "halfopen"]
  /\ now = eng.firstAt + timeout
  /\ eng.started = MaxRequests

\* C9: a request enters the breaker at most maxRetries + 1 times and calls
\* the upstream no more often than that; every step of a request lowers the
\* number of steps it can still take, which is at least 1 while it is in
\* progress; a failed attempt returns 502 when it was attempt maxRetries + 1
\* and schedules a retry otherwise; 502 is returned at no other step; an
\* attempt that succeeds returns the upstream's response at once.
C9_RetryBudget ==
  [][/\ \A q \in BagToSet(req') :
          /\ q.entered <= maxRetries + 1
          /\ q.contacted <= q.entered
          /\ remaining(q) >= 1
     /\ eng'.returned.entered <= maxRetries + 1
     /\ eng'.returned.contacted <= eng'.returned.entered
     /\ ev' # "tick" => work(req') < work(req) + arrived * (remaining(NewRequest) + 1)
     /\ FailureStep
          => \/ /\ eng'.returned.response = BadGateway
                /\ eng'.returned.entered = maxRetries + 1
                /\ BagCardinality(req') = BagCardinality(req) + arrived - 1
             \/ /\ eng'.returned = NoReturn
                /\ RetryScheduled
                /\ BagCardinality(req') = BagCardinality(req) + arrived
     /\ eng'.returned.response = BadGateway => FailureStep
     /\ ev' = "success"
          => /\ eng'.returned.response =
                  [status |-> eng'.outcome.status, from |-> "upstream"]
             /\ BagCardinality(req') = BagCardinality(req) - 1]_vars

C9_Witness ==
  /\ ev = "failure"
  /\ eng.returned = [response |-> BadGateway,
                     entered |-> maxRetries + 1,
                     contacted |-> maxRetries + 1,
                     host |-> <<>>]
  /\ eng.outcome.kind = "error"
  /\ req # EmptyBag

\* C10: a request is sent to the backoff timer only in a step in which the
\* breaker rejected its attempt or fetch settled with an error, a timeout or
\* a status >= 500; when fetch settles with a status < 500 the response is
\* returned to the client, no retry is scheduled, the breaker records a
\* success (no failure is counted, no timestamp added, it does not open) and
\* the health record of the backend is left as it is.
C10_RetryOnlyOnFailure ==
  [][/\ RetryScheduled
          => \/ ev' = "execute" /\ call'.result = "rejected"
             \/ eng'.outcome.kind = "error"
             \/ eng'.outcome.kind = "response" /\ eng'.outcome.status >= 500
     /\ (eng'.outcome.kind = "response" /\ eng'.outcome.status < 500)
          => /\ eng'.returned.response =
                  [status |-> eng'.outcome.status, from |-> "upstream"]
             /\ ~RetryScheduled
             /\ BagCardinality(req') = BagCardinality(req) - 1
             /\ ev' = "success"
             /\ breaker'.consecutiveFailures = 0
             /\ breaker'.consecutiveSuccesses = breaker.consecutiveSuccesses + 1
             /\ Len(breaker'.failureTimestamps) <= Len(breaker.failureTimestamps)
             /\ breaker'.state = "OPEN" => breaker.state = "OPEN"
             /\ breaker'.nextAttemptTime = breaker.nextAttemptTime
             /\ health' = health]_vars

C10_Witness ==
  /\ eng.outcome = [kind |-> "response", status |-> 404]
  /\ eng.returned.response = [status |-> 404, from |-> "upstream"]
  /\ eng.returned.entered = 2
  /\ health # {}
  /\ breaker.consecutiveFailures = 0
  /\ Len(breaker.failureTimestamps) >= 1
  /\ req # EmptyBag

\* ------------------------------------------------------ route table claims
\* what the operations issued so far say the backend of host h is: the
\* backend of the last add for h unless a rm for h came later
RECURSIVE lastWrite(_, _)
lastWrite(ops, h) ==
  IF ops = <<>> THEN Null
  ELSE LET last == ops[Len(ops)]
       IN IF last.host = h
          THEN (IF last.op = "add" THEN last.backend ELSE Null)
          ELSE lastWrite(SubSeq(ops, 1, Len(ops) - 1), h)

\* C14: after any sequence of addRoute and removeRoute, a lookup of a host
\* returns the backend of the most recent addRoute for it if no removeRoute
\* for it came later, and no backend otherwise; no host ever has two rows;
\* removeRoute of a host without a route returns false and changes nothing.
C14_LastWriterWins ==
  [][/\ \A h \in ConfigHosts : Cardinality(rowsOf(routes', h)) <= 1
     /\ routeLog'.result.op = "get" =>
          routeLog'.result.value = lastWrite(routeLog'.ops, routeLog'.result.host)
     /\ (routeLog'.result.op = "rm" /\ Len(routeLog'.ops) > Len(routeLog.ops)
           /\ lastWrite(routeLog.ops, routeLog'.result.host) = Null) =>
          (routes' = routes /\ routeLog'.result.value = FALSE)]_vars

\* a host is added twice with different backends, and then looked up
C14_Witness ==
  /\ Len(routeLog.ops) >= 2
  /\ routeLog.ops[1] = [op |-> "add", host |-> <<"a">>, backend |-> "http://b1"]
  /\ routeLog.ops[2] = [op |-> "add", host |-> <<"a">>, backend |-> "http://b2"]
  /\ routeLog.result.op = "get"
  /\ routeLog.result.host = <<"a">>
  /\ routeLog.result.value = "http://b2"
  /\ Cardinality(routes) = Len(routeLog.ops) - 1

\* ------------------------------------------------------------ ACME claims
\* the request of the step: the one that leaves handleRequest's queue
leaves(q) == CopiesIn(q, front') < CopiesIn(q, front)

\* C11: a request whose path begins with /.well-known/acme-challenge/ is
\* answered by the ACME handler before host validation and rate limiting: it
\* is never answered 400 or 429, whatever its Host header and however full
\* the counter of its client is, and receiving and answering it leave every
\* rate-limit counter, the breaker record and the health records unchanged.
C11_AcmePriority ==
  [][/\ \A q \in BagToSet(front) :
          (leaves(q) /\ isAcme(pathname(q.request))) =>
            /\ handled'.step = "answer"
            /\ handled'.response = handleAcmeChallenge(disk, q.request)
            /\ handled'.response.from \in {"acme", "thrown"}
            /\ handled'.response.status \notin {400, 429}
            /\ UNCHANGED <<cache, breaker, health, req>>
     /\ \A r \in Requests :
          (isAcme(pathname(r)) /\ handled' = [request |-> r, response |-> NoAnswer, step |-> "receive"]) =>
            UNCHANGED <<cache, breaker, health, req>>]_vars

\* a challenge is served to a client whose counter is full, under a Host
\* header that is not valid
C11_Witness ==
  /\ handled.step = "answer"
  /\ isAcme(pathname(handled.request))
  /\ handled.response.status = 200
  /\ getClientIp(handled.request) = Watched
  /\ indexOf(cache, Watched) # 0
  /\ cache[indexOf(cache, Watched)].value.count >= maxRequestsPerMinute
  /\ ~isValidHost(extractHost(handled.request))

\* the file the claim names: <data-root>/acme-challenges/.well-known/
\* acme-challenge/<token>
challengeFile(r) == AcmeChallengeDir \o AcmePrefix \o token(pathname(r))
fileAt(d, p) == p \in DOMAIN d /\ d[p].kind = "file"

\* C12: for every request whose path begins with /.well-known/acme-challenge/
\* the response is 200 with Content-Type text/plain and the file's bytes if
\* and only if a file exists at the challenge path of its token; otherwise the
\* response is 404.
C12_AcmeResult ==
  [][\A q \in BagToSet(front) :
       (leaves(q) /\ isAcme(pathname(q.request))) =>
         IF fileAt(disk, challengeFile(q.request))
         THEN /\ handled'.response.status = 200
              /\ <<"Content-Type", "text/plain">> \in handled'.response.headers
              /\ handled'.response.body = disk[challengeFile(q.request)].content
         ELSE handled'.response.status = 404]_vars

\* the token has a '/' in it (more than one segment) or the substring '..'
DotDot == {"..", "t..t"}
traverses(tok) == Len(tok) > 1 \/ \E i \in 1..Len(tok) : tok[i] \in DotDot

\* C13: every ACME request whose token contains '/' or '..' is rejected, so
\* the handler serves no file but a direct child of the acme-challenge
\* directory.
C13_NoTraversal ==
  [][\A q \in BagToSet(front) :
       (leaves(q) /\ isAcme(pathname(q.request))) =>
         /\ traverses(token(pathname(q.request))) => handled'.response.status # 200
         /\ handled'.response.status = 200 =>
              Len(challengePath(pathname(q.request)).segs) = Len(AcmeChallengeDir \o AcmePrefix) + 1]_vars

\* ------------------------------------------------------ pipeline claims
\* the step answers the request itself: nothing goes upstream, no attempt is
\* scheduled, and the breaker and its history stay as they are
direct ==
  /\ handled'.step = "answer"
  /\ handled'.response.from = "handler"
  /\ UNCHANGED <<inflight, breakerVars, engineVars>>

\* Host headers that are not valid host names ("bad host!")
BadHosts == {<<"a", " ", "!">>, <<"-", "a">>}

\* C17: a request with an invalid Host yields 400, a rate-limited request
\* yields 429 with Retry-After: 60, and a request for a host without a route
\* yields 502 with the body "No backend configured for host: <host>"; each is
\* returned directly: no upstream request is issued, no retry happens and no
\* breaker record is created or changed.
C17_TerminalErrors ==
  [][\A q \in BagToSet(front) :
       (leaves(q) /\ ~isAcme(pathname(q.request))) =>
         LET host == extractHost(q.request)
             limited == isRateLimited(cache, getClientIp(q.request), now).limited
         IN /\ q.request.host \in BadHosts => ~isValidHost(host)
            /\ ~isValidHost(host) =>
                 (handled'.response.status = 400 /\ direct)
            /\ (isValidHost(host) /\ limited) =>
                 /\ handled'.response.status = 429
                 /\ <<"Retry-After", "60">> \in handled'.response.headers
                 /\ direct
            /\ (isValidHost(host) /\ ~limited /\ getBackend(routes, host) = Null) =>
                 /\ handled'.response.status = 502
                 /\ handled'.response.body = <<"No backend configured for host: ", host>>
                 /\ direct]_vars

\* a request is answered 429 while another one is upstream
C17_Witness ==
  /\ handled.step = "answer"
  /\ handled.response.status = 429
  /\ <<"Retry-After", "60">> \in handled.response.headers
  /\ eng.started > 0
  /\ req # EmptyBag

\* the per-host counters of a host, zero for a host not seen yet
hostCount(st, host) ==
  IF host \in DOMAIN st.hostStats THEN st.hostStats[host] ELSE NoHostStats

\* the step counts one failure, once, for the host
countsFailure(host) ==
  /\ stats'.failedRequests = stats.failedRequests + 1
  /\ stats'.successRequests = stats.successRequests
  /\ hostCount(stats', host).failed = hostCount(stats, host).failed + 1
  /\ hostCount(stats', host).success = hostCount(stats, host).success

\* the step counts one success, once, for the host
countsSuccess(host) ==
  /\ stats'.successRequests = stats.successRequests + 1
  /\ stats'.failedRequests = stats.failedRequests
  /\ hostCount(stats', host).success = hostCount(stats, host).success + 1
  /\ hostCount(stats', host).failed = hostCount(stats, host).failed

\* the statuses the claim counts as failures
Failures == {400, 429, 500, 502}

\* C18: every request that ends in failure (400, 429, 502 without a route,
\* 502 after the retries, 500) increments the global failed counter and the
\* per-host failed counter of its host, and every request that ends in
\* success increments the global success counter and the per-host success
\* counter, each exactly once per request.
C18_Statistics ==
  [][/\ \A q \in BagToSet(front) :
          (leaves(q) /\ handled'.step = "answer") =>
            /\ handled'.response.status \in Failures =>
                 countsFailure(extractHost(q.request))
            /\ ok(handled'.response.status) =>
                 countsSuccess(extractHost(q.request))
     /\ (handled'.step = "proxy" /\ eng'.returned # NoReturn) =>
          /\ handled'.response.status \in Failures =>
               countsFailure(eng'.returned.host)
          /\ ok(handled'.response.status) =>
               countsSuccess(eng'.returned.host)]_vars

\* C18, as the code counts.  Only a request that went to proxyRequest, or found
\* no route, is counted for its host; 400 and 429 count as failed globally
\* only, an answered challenge (200 or 404) as a success globally only, and a
\* challenge whose read throws as neither.
C18_CountedOnce ==
  [][/\ \A q \in BagToSet(front) :
          (leaves(q) /\ handled'.step = "answer") =>
            LET status == handled'.response.status
                host == extractHost(q.request)
            IN /\ stats'.totalRequests = stats.totalRequests
               /\ status = 502 => countsFailure(host)
               /\ status \in {400, 429} =>
                    /\ stats'.failedRequests = stats.failedRequests + 1
                    /\ stats'.successRequests = stats.successRequests
                    /\ stats'.hostStats = stats.hostStats
               /\ handled'.response.from = "acme" =>
                    /\ stats'.successRequests = stats.successRequests + 1
                    /\ stats'.failedRequests = stats.failedRequests
                    /\ stats'.hostStats = stats.hostStats
               /\ handled'.response.from = "thrown" => stats' = stats
     /\ (handled'.step = "proxy" /\ eng'.returned # NoReturn) =>
          IF ok(handled'.response.status)
          THEN countsSuccess(eng'.returned.host)
          ELSE countsFailure(eng'.returned.host)
     /\ (handled'.step = "proxy" /\ eng'.returned = NoReturn) => stats' = stats
     /\ handled'.step = "forward" => stats' = stats]_vars

\* requests have ended in 400, in 429 and upstream, and the host has counters
C18_Witness ==
  /\ handled.step = "answer"
  /\ handled.response.status = 429
  /\ stats.failedRequests >= 2
  /\ stats.successRequests >= 1
  /\ <<"a">> \in DOMAIN stats.hostStats
  /\ stats.hostStats[<<"a">>].success = 1

\* C19: for a client whose counter entry stays in the table, within one
\* window the k-th admit call returns OK if and only if k <= the limit: a
\* call is answered LIMITED exactly when the limit of calls of the window
\* were answered OK before it.  So the requests up to the limit are proxied
\* and the next one is answered 429 with Retry-After: 60.
C19_AdmissionExact ==
  [][\A q \in BagToSet(front) :
       (/\ leaves(q)
        /\ ~isAcme(pathname(q.request))
        /\ isValidHost(extractHost(q.request))
        /\ getClientIp(q.request) = Watched
        /\ ~win.evicted) =>
         LET full == windowRuns(win, now) /\ win.ok >= maxRequestsPerMinute
         IN /\ admitted' = [ip |-> Watched, limited |-> full]
            /\ win'.ok = (IF full THEN win.ok ELSE win.ok + 1)
            /\ win'.ok <= maxRequestsPerMinute
            /\ full =>
                 /\ handled'.response.status = 429
                 /\ <<"Retry-After", "60">> \in handled'.response.headers
                 /\ UNCHANGED engineVars
            /\ (~full /\ routed(q.request)) =>
                 /\ handled'.step = "forward"
                 /\ eng'.started = eng.started + 1]_vars

\* the requests up to the limit of one client went upstream or found no
\* route, and its next request is answered 429
C19_Witness ==
  /\ handled.step = "answer"
  /\ handled.response.status = 429
  /\ getClientIp(handled.request) = Watched
  /\ win.ok = maxRequestsPerMinute
  /\ ~win.evicted
  /\ eng.started = MaxProxied
  /\ stats.totalRequests = maxRequestsPerMinute + 1

\* ---------------------------------------------------------- header claims
\* the security headers and their values, by lower-case name
Fixed ==
  {<<"x-frame-options", "DENY">>,
   <<"content-security-policy", "frame-ancestors 'none'">>,
   <<"x-content-type-options", "nosniff">>,
   <<"x-xss-protection", "1; mode=block">>,
   <<"strict-transport-security", "max-age=31536000; includeSubDomains; preload">>,
   <<"referrer-policy", "strict-origin-when-cross-origin">>,
   <<"permissions-policy",
     "geolocation=(), microphone=(), camera=(), payment=(), usb=(), magnetometer=(), gyroscope=(), accelerometer=()">>}

\* the upstream sent the header under some spelling of the name
sentByUpstream(name) ==
  \E i \in 1..Len(wire.response.lines) : lower(wire.response.lines[i][1]) = name

sentByClient(name) ==
  \E i \in 1..Len(wire.client.lines) : lower(wire.client.lines[i][1]) = name

\* C16: on every upstream request of the engine, the first attempt and every
\* retry, X-Forwarded-Host, X-Forwarded-Proto, X-Forwarded-For and X-Real-IP
\* are set, and none of connection, keep-alive, proxy-authenticate,
\* proxy-authorization, te, trailer, transfer-encoding, upgrade is present,
\* whatever headers the client sent.
C16_UpstreamHeaders ==
  wire.sent # NoHeaders =>
    /\ wire.attempt \in 1..(maxRetries + 1)
    /\ {"x-forwarded-host", "x-forwarded-proto", "x-forwarded-for", "x-real-ip"}
         \subseteq DOMAIN wire.sent
    /\ wire.sent["x-forwarded-host"] = <<wire.client.url.host>>
    /\ wire.sent["x-forwarded-proto"] \in {<<"http">>, <<"https">>}
    /\ Len(wire.sent["x-forwarded-for"]) = 1
    /\ wire.sent["x-real-ip"] = wire.sent["x-forwarded-for"]
    /\ DOMAIN wire.sent \cap
         {"connection", "keep-alive", "proxy-authenticate", "proxy-authorization",
          "te", "trailer", "transfer-encoding", "upgrade"} = {}

\* the last retry of a request that asked for a protocol switch
C16_Witness ==
  /\ wire.sent # NoHeaders
  /\ wire.attempt = maxRetries + 1
  /\ sentByClient("connection")
  /\ sentByClient("upgrade")

\* -------------------------------------------------- health checker claims
\* every backend has at most one interval timer, the one of its map entry
oneProber(c, t) ==
  \A b \in Backends :
    /\ CopiesIn(b, t) <= 1
    /\ BagIn(b, t) <=> b \in c.checkIntervals

\* the step is startChecking for a backend that has a prober
startsAgain == probed'.op = "start" /\ probed'.backend \in checker.checkIntervals

\* the step is stopChecking for a backend that has no prober
stopsIdle == probed'.op = "stop" /\ probed'.backend \notin checker.checkIntervals

\* C20: after any sequence of start, stop, stop_all and reload there is at
\* most one active periodic prober per backend; a second start for a backend
\* that is being probed is a no-op (no second prober, no reset of the status
\* record, no extra immediate probe), and a stop for a backend that is not
\* probed is a no-op.
C20_ProberUniqueness ==
  [][/\ oneProber(checker', timers')
     /\ startsAgain => UNCHANGED <<checker, timers, probes>>
     /\ stopsIdle => UNCHANGED <<checker, timers, probes>>]_vars

\* C20, as the code has it: the same, but a stop for a backend that is not
\* probed removes the status record that the result of an earlier probe has
\* left, and nothing else.
C20_OneProberPerBackend ==
  [][/\ oneProber(checker', timers')
     /\ startsAgain => UNCHANGED <<checker, timers, probes>>
     /\ stopsIdle =>
          /\ UNCHANGED <<timers, probes>>
          /\ checker'.checkIntervals = checker.checkIntervals
          /\ checker'.healthStatus = statusDelete(checker.healthStatus, probed'.backend)
          /\ probed'.backend \notin DOMAIN checker.healthStatus => checker' = checker]_vars

\* a start for a backend whose prober runs and whose record shows failures
C20_Witness ==
  /\ probed.op = "start"
  /\ probed.backend \in checker.checkIntervals
  /\ BagIn(probed.backend, timers)
  /\ checker.healthStatus[probed.backend].consecutiveFailures > 0
  /\ ~BagIn([backend |-> probed.backend, leg |-> 1], probes)

\* the step is the end of a leg of a probe of a backend that has no prober
lateResult ==
  /\ probed'.op \in {"leg1", "leg2"}
  /\ probed'.backend \notin checker.checkIntervals

\* C21: after stop(backend) has returned, and until the next start(backend),
\* no probe result for the backend is recorded and the backend has no status
\* record, even when a probe for it was in flight at the moment of the stop.
C21_StopAbortsProbe ==
  [][/\ lateResult => checker' = checker
     /\ \A b \in Backends :
          b \in DOMAIN checker'.healthStatus => b \in checker'.checkIntervals]_vars

\* C21, as the code has it: when stopChecking returns the backend has no
\* timer, no map entry and no record, and the probes in flight are as they
\* were.
C21_StopLeavesProbe ==
  [][probed'.op = "stop" =>
       /\ ~BagIn(probed'.backend, timers')
       /\ probed'.backend \notin checker'.checkIntervals
       /\ probed'.backend \notin DOMAIN checker'.healthStatus
       /\ probes' = probes]_vars

\* a stop of a backend whose probe is in flight
C21_Witness ==
  /\ probed.op = "stop"
  /\ \E p \in BagToSet(probes) : p.backend = probed.backend

\* the record of the backend the step has recorded a result for
statusOf(c, b) == IF b \in DOMAIN c.healthStatus THEN c.healthStatus[b] ELSE NewStatus

\* C22: for a probed backend, a recorded probe failure flips healthy from
\* true to false exactly when consecutive_failures reaches 3 or more; any
\* recorded probe success sets consecutive_failures to 0 and restores healthy
\* to true, whatever the state before (after mark_unhealthy included).
C22_HealthVerdict ==
  [][probed'.backend \in checker.checkIntervals =>
       LET old == statusOf(checker, probed'.backend)
           new == statusOf(checker', probed'.backend)
       IN /\ probed'.result = "unhealthy" =>
               /\ new.consecutiveFailures = old.consecutiveFailures + 1
               /\ old.healthy =>
                    (~new.healthy <=> new.consecutiveFailures >= 3)
          /\ probed'.result = "healthy" =>
               /\ new.consecutiveFailures = 0
               /\ new.healthy]_vars

\* a success recorded for a prober's backend that a failed request had marked
\* unhealthy before it had three failures
C22_Witness ==
  /\ probed.result = "healthy"
  /\ probed.was = "unhealthy"
  /\ probed.backend \in checker.checkIntervals
  /\ checker.healthStatus[probed.backend].healthy
  /\ checker.healthStatus[probed.backend].consecutiveSuccesses = 1

\* C23: a probe is recorded as a failure only if both legs fail: the first
\* leg (GET <backend>/health) fails on a 5xx status, a connection failure or
\* a timeout, the second leg (HEAD <backend>/) is then tried, and the failure
\* is recorded when the second leg has failed too.
C23_BothLegsFail ==
  [][probed'.result = "unhealthy" => probed'.op = "leg2"]_vars

\* C24: immediately after reload completes, the backends with an active
\* prober are the distinct backends of the route table the reload has read:
\* probers are started for additions and stopped for removals, and a backend
\* that another host still uses keeps its prober, whatever route changes were
\* made since start or the reload before.
C24_ReloadMatchesRoutes ==
  probed.op = "reload" =>
    /\ checker.checkIntervals = backendsOf(routes)
    /\ \A b \in Backends :
         CopiesIn(b, timers) = IF b \in backendsOf(routes) THEN 1 ELSE 0

\* a reload that has kept the prober of a backend two hosts use, with the
\* failures its record has counted, and that has left another backend
\* without one
C24_Witness ==
  /\ probed.op = "reload"
  /\ \E r1, r2 \in routes :
       /\ r1.host # r2.host
       /\ r1.backend = r2.backend
       /\ checker.healthStatus[r1.backend].consecutiveFailures > 0
  /\ \E b \in Backends : b \notin backendsOf(routes)

\* ------------------------------------------------ engine and health claims
\* HealthChecker.isHealthy(backend): the record's verdict, true without one
isHealthy(h) == \A status \in h : status.healthy

\* C26: a request whose backend the health checker has marked unhealthy is
\* answered 502 without being forwarded to the backend.
C26_HealthGate ==
  [][(ev' = "execute" /\ ~isHealthy(health)) =>
       /\ call'.result # "invoked"
       /\ eng'.returned.response = BadGateway]_vars

\* the step is the end of a failed attempt: the breaker has rejected the
\* call, or the operation has thrown (network error, timeout, 5xx)
failedAttempt ==
  \/ ev' = "failure"
  \/ ev' = "execute" /\ call'.result = "rejected"

\* C30: after every failed attempt for a backend the health checker's
\* status of the backend is unhealthy before the retry is issued, from a
\* single failure on, and for every routed backend, one whose route was added
\* after the last start or reload included.
C30_MarkedAfterFailure ==
  [][failedAttempt => ~isHealthy(health')]_vars

\* C30, as the code has it: after a failed attempt the record of the
\* backend, when the checker has one, is unhealthy and counts one failure
\* more.
C30_MarkedWhenMonitored ==
  [][failedAttempt =>
       /\ health' = markUnhealthy(health)
       /\ \A status \in health' : ~status.healthy]_vars

\* the first failure of a backend under check: its record is unhealthy, and
\* the request waits for its retry
C30_Witness ==
  /\ ev = "failure"
  /\ health = markUnhealthy({NewStatus})
  /\ \E q \in BagToSet(req) : q.pc = "backoff" /\ q.retryCount = 0

\* ------------------------------------------------------ rate counter claim
\* C27: in every reachable state, for every IP entry of the counter table,
\* count is at most max_per_window + 1, under any interleaving of admit
\* calls.
C27_CountBound ==
  \A i \in 1..Len(cache) : cache[i].value.count <= maxRequestsPerMinute + 1

\* a call refused for an IP whose entry is full, with another IP's entry in
\* the table
C27_Witness ==
  /\ admitted.limited
  /\ \E i \in 1..Len(cache) :
       /\ cache[i].key = admitted.ip
       /\ cache[i].value.count = maxRequestsPerMinute
  /\ Len(cache) > 1

\* ------------------------------------------------------- host extraction
\* the lower-case form of the characters of the model
lowered(chars) == [i \in 1..Len(chars) |-> IF chars[i] = "A" THEN "a" ELSE chars[i]]

\* the host as the claim reads it: before the first colon, lowercased
hostOfHeader(r) == lowered(upTo(r.host, ":"))

\* what the step does with the request that leaves handleRequest, when the
\* pipeline uses host for validation, route lookup and statistics
pipelineUses(q, host) ==
  LET limited == isRateLimited(cache, getClientIp(q.request), now).limited
  IN /\ ~isValidHost(host) => handled'.response.status = 400
     /\ (isValidHost(host) /\ ~limited /\ getBackend(routes, host) = Null) =>
          /\ handled'.step = "answer"
          /\ handled'.response.status = 502
          /\ countsFailure(host)
     /\ (isValidHost(host) /\ ~limited /\ getBackend(routes, host) # Null) =>
          /\ handled'.step = "forward"
          /\ \/ \E p \in BagToSet(req') : p.host = host /\ CopiesIn(p, req') > CopiesIn(p, req)
             \/ eng'.returned.host = host

\* C28: the host used for validation, route lookup and per-host statistics
\* is the Host header's substring before the first colon, lowercased: two
\* requests whose Host headers differ only in letter case or in port are
\* routed to the same backend.
C28_HostExtraction ==
  [][\A q \in BagToSet(front) : leaves(q) => pipelineUses(q, hostOfHeader(q.request))]_vars

\* C28, as the code has it: the host is the substring before the first colon,
\* in the case the client wrote it in; the port makes no difference.
C28_HostBeforeColon ==
  [][\A q \in BagToSet(front) : leaves(q) => pipelineUses(q, extractHost(q.request))]_vars

\* a request whose Host header names the routed host with a port is forwarded
C28_Witness ==
  /\ handled.step = "forward"
  /\ handled.request.host = <<"a", ":", "8">>
  /\ \E p \in BagToSet(req) : p.host = <<"a">> /\ p.pc = "upstream"

\* ------------------------------------------------------ breaker recovery
\* C29: if a breaker is OPEN, and from some point on every operation on its
\* backend succeeds and execute keeps being invoked, the breaker eventually
\* reaches CLOSED: it stays neither OPEN nor HALF_OPEN forever.
C29_AutoRecovery ==
  (breaker.state # "CLOSED") ~> (breaker.state = "CLOSED")

\* the breaker is CLOSED again after a failure in HALF_OPEN had reopened it
C29_Witness ==
  /\ breaker.state = "CLOSED"
  /\ opened.by = "halfopen"
  /\ now > LastFailure

\* ----------------------------------------------------------- shutdown claim
\* the requests inside handleRequest or proxyRequest
inFlight == BagCardinality(front) + BagCardinality(req)

\* C25: on SIGINT or SIGTERM the supervisor stops accepting new connections
\* and stops all probers, and the route table handle is closed, and the
\* process exits, only after every request that was in flight at the time of
\* the signal has finished.
C25_ShutdownOrdering ==
  /\ server.phase # "up" =>
       /\ ~server.listening
       /\ timers = EmptyBag
       /\ checker.checkIntervals = {}
  /\ server.db = "closed" => inFlight = 0

\* C25, as the code has it: the listeners and the probers are stopped at the
\* signal and the table is closed after that; the requests in flight at the
\* signal are still in flight when the table is closed and the process exits.
C25_StopsThenCloses ==
  /\ server.phase # "up" =>
       /\ ~server.listening
       /\ timers = EmptyBag
       /\ checker.checkIntervals = {}
  /\ server.db = "closed" <=> server.phase \in {"closed", "exited"}

\* the signal has come while a request waits for the backend and a probe is
\* in flight
C25_Witness ==
  /\ server.phase = "stopping"
  /\ \E q \in BagToSet(req) : q.pc = "upstream"
  /\ probes # EmptyBag

\* ------------------------------------------------ rate limiter, by call
\* the entry of the IP in a table, count 0 when it has none
entryOf(c, ip) ==
  IF indexOf(c, ip) = 0 THEN [count |-> 0, resetTime |-> Undefined]
  ELSE c[indexOf(c, ip)].value

\* the step is a call of isRateLimited (the clock stands still in it)
admits == now' = now /\ admitted'.ip \in Ips

\* C31: for an IP whose entry's reset_at has passed, the next admit returns
\* OK and sets the entry to {count = 1, reset_at = now + 60 s}, however many
\* OK or LIMITED results the window before had; an admit made while
\* reset_at has not passed never starts a new window.
C31_WindowReset ==
  [][admits =>
       LET old == entryOf(cache, admitted'.ip)
           new == entryOf(cache', admitted'.ip)
       IN /\ (old.count > 0 /\ now > old.resetTime) =>
               /\ ~admitted'.limited
               /\ new = [count |-> 1, resetTime |-> now + windowMs]
          /\ (old.count > 0 /\ now <= old.resetTime) =>
               new.resetTime = old.resetTime]_vars

\* a new window has started for the watched IP after its first one had passed
C31_Witness ==
  /\ admitted = [ip |-> Watched, limited |-> FALSE]
  /\ entryOf(cache, Watched) = [count |-> 1, resetTime |-> now + windowMs]
  /\ win.ok = 1
  /\ now > windowMs

\* the keys of a table, most recently touched first
keysOf(c) == [i \in 1..Len(c) |-> c[i].key]

\* C32: the table holds at most capacity entries; a get or a set touches
\* the key (the get of an admit that returns LIMITED too), and when a new
\* key overflows the capacity exactly one entry is evicted, the one touched
\* least recently.
C32_LruEviction ==
  [][admits =>
       LET ip == admitted'.ip
           i == indexOf(cache, ip)
       IN /\ Len(cache') <= capacity
          /\ i # 0 => keysOf(cache') = <<ip>> \o keysOf(without(cache, i))
          /\ (i = 0 /\ Len(cache) < capacity) => keysOf(cache') = <<ip>> \o keysOf(cache)
          /\ (i = 0 /\ Len(cache) >= capacity) =>
               keysOf(cache') = <<ip>> \o keysOf(SubSeq(cache, 1, Len(cache) - 1))]_vars

\* the entry of the watched IP was evicted in its window by a new key, and
\* the table is full
C32_Witness ==
  /\ win.evicted
  /\ ~admitted.limited
  /\ admitted.ip # Watched
  /\ indexOf(cache, Watched) = 0
  /\ Len(cache) = capacity

\* C40: an admit that returns LIMITED leaves the count and reset_at of the
\* IP unchanged, and every other entry too: a client that keeps sending while
\* it is limited does not postpone the end of its window.
C40_LimitedFrame ==
  [][(admits /\ admitted'.limited) =>
       /\ \A ip \in Ips : entryOf(cache', ip) = entryOf(cache, ip)
       /\ Len(cache') = Len(cache)]_vars

\* a call is refused at the last instant of the window of its IP
C40_Witness ==
  /\ admitted.limited
  /\ entryOf(cache, admitted.ip).resetTime = now
  /\ entryOf(cache, admitted.ip).count = maxRequestsPerMinute

\* ------------------------------------------------- engine and client claims
\* the request leaves the wait for fetch in this step
settles(q) == q.pc = "upstream" /\ CopiesIn(q, req') < CopiesIn(q, req)

\* C33: when a client aborts its request while an upstream call for it is
\* in flight, the upstream call is aborted, and the breaker of the backend
\* records that attempt as a failure.
C33_AbortIsFailure ==
  [][/\ ev' = "abort" => \A q \in BagToSet(req') : q.aborted => q.pc # "upstream"
     /\ \A q \in BagToSet(req) : (q.aborted /\ settles(q)) => ev' = "failure"]_vars

\* the backoff timer of the request fires in this step
retried(q) == q.pc = "backoff" /\ CopiesIn(q, req') < CopiesIn(q, req)

\* C34: the engine retries only when the failed attempt had not yet sent any
\* of the request body, or when the request has no body; a request whose
\* body a failed attempt has consumed, in part or whole, is not sent to the
\* upstream again.
C34_NoRetryAfterBody ==
  [][\A q \in BagToSet(req) : retried(q) => q.body # "consumed"]_vars

\* ------------------------------------------ checker and breaker claims
\* a recorded probe failure turns the verdict of its backend in this step
\* from healthy to unhealthy
flips ==
  /\ probed' # probed
  /\ probed'.result = "unhealthy"
  /\ probed'.was = "healthy"
  /\ verdict(checker'.healthStatus, probed'.backend) = "unhealthy"

\* C35: when probe failures flip a backend from healthy to unhealthy, the
\* circuit breaker of that backend is opened, so that the next request for
\* the backend is rejected by the breaker.
C35_FlipOpensBreaker ==
  [][flips => /\ breaker'.state = "OPEN"
              /\ rejects(breaker', now')]_vars

\* C35, as the code has it: the flip reads the statistics of the breaker
\* and leaves its record as it was.
C35_FlipLeavesBreaker == [][flips => breaker' = breaker]_vars

\* the verdict of a backend has flipped and its breaker is CLOSED
C35_Witness ==
  /\ probed.result = "unhealthy"
  /\ probed.was = "healthy"
  /\ verdict(checker.healthStatus, probed.backend) = "unhealthy"
  /\ breaker.state = "CLOSED"

\* --------------------------------------------------------- reload claims
\* C36: a reload changes only the probers and status records of the health
\* checker; it leaves every listener bound and running, leaves the breaker
\* record, the rate-limit counters and the statistics counters unchanged,
\* and leaves the requests in flight where they are, so that they complete
\* with the result they would have had without it.
C36_ReloadFrame ==
  [][probed'.op = "reload" /\ probed'# probed =>
       /\ server' = server
       /\ breaker' = breaker /\ inflight' = inflight
       /\ cache' = cache
       /\ stats' = stats
       /\ req' = req /\ front' = front
       /\ routes' = routes /\ disk' = disk /\ now' = now]_vars

\* a reload has stopped or started a prober while a request was waiting for
\* its upstream
C36_Witness ==
  /\ probed.op = "reload"
  /\ \E q \in BagToSet(req) : q.pc = "upstream"
  /\ checker.checkIntervals # {"http://b1"}

\* ------------------------------------------------ breaker frame claims
\* C37: an execute that is rejected because the breaker is OPEN and now <
\* next_attempt_at leaves the whole breaker record unchanged: state,
\* next_attempt_at, the failure-timestamp list and the consecutive-success
\* and consecutive-failure counters are the same before and after, so
\* rejections, those of the engine's retries included, never extend the open
\* period and never count as failures.
C37_RejectionFrame ==
  [][(ev' = "execute" /\ call'.result = "rejected") =>
       /\ breaker.state = "OPEN" /\ now < breaker.nextAttemptTime
       /\ breaker'.state = breaker.state
       /\ breaker'.nextAttemptTime = breaker.nextAttemptTime
       /\ breaker'.failureTimestamps = breaker.failureTimestamps
       /\ breaker'.consecutiveSuccesses = breaker.consecutiveSuccesses
       /\ breaker'.consecutiveFailures = breaker.consecutiveFailures
       /\ gFails' = gFails]_vars

\* a call has been rejected by the OPEN breaker, later than the instant the
\* breaker opened, with a request of the engine beyond its first retry
C37_Witness ==
  /\ ev = "execute"
  /\ call.result = "rejected"
  /\ \E q \in BagToSet(req) : q.retryCount >= 2
  /\ now > breaker.nextAttemptTime - timeout

\* C38: when an operation that was admitted earlier, in CLOSED or HALF_OPEN,
\* completes while the breaker is OPEN, the breaker stays OPEN and
\* next_attempt_at is unchanged, whether the operation succeeded or failed: a
\* late success never closes an OPEN breaker and a late failure never
\* extends the open period.
C38_LateCompletion ==
  [][(breaker.state = "OPEN" /\ ev' \in {"success", "failure"}) =>
       /\ breaker'.state = "OPEN"
       /\ breaker'.nextAttemptTime = breaker.nextAttemptTime]_vars

\* an operation has succeeded while the breaker was OPEN, later than the
\* instant it opened and before the timeout has run out, and it is OPEN
C38_Witness ==
  /\ breaker.state = "OPEN"
  /\ ev = "success"
  /\ now > breaker.nextAttemptTime - timeout
  /\ now < breaker.nextAttemptTime

\* ------------------------------------------------------ statistics claims
\* for every host with counters, requests = success + failed
hostsBalance ==
  \A h \in DOMAIN stats.hostStats :
    stats.hostStats[h].requests = stats.hostStats[h].success + stats.hostStats[h].failed

\* C39: every request increments total once and one of success or failed
\* once, so in every state total = success + failed + the number of requests
\* still in flight, and for every host the per-host requests counter equals
\* its success + failed.
C39_Conservation ==
  /\ stats.totalRequests = stats.successRequests + stats.failedRequests + inFlight
  /\ hostsBalance

\* C39, as the code has it: the counters of every host balance, and the
\* requests answered are never fewer than those counted as success or failed.
C39_HostConservation ==
  /\ hostsBalance
  /\ stats.totalRequests >= stats.successRequests + stats.failedRequests + inFlight

\* a host has been counted a success and a failure, and a request has been
\* answered that was counted as neither
C39_Witness ==
  /\ \E h \in DOMAIN stats.hostStats :
       stats.hostStats[h].success > 0 /\ stats.hostStats[h].failed > 0
  /\ stats.totalRequests > stats.successRequests + stats.failedRequests + inFlight

====
